---------------------------- MODULE Spec2Model ----------------------------
(***************************************************************************)
(* Model of the DAU / retention reconciliation pipeline of                 *)
(* "1.1【聚合】dau-分渠道.py": process_dau_files, process_retention_files,   *)
(* create_integrated_dau and create_integrated_retention, with the date    *)
(* helpers convert_date_to_sortable and force_standardize_date.            *)
(*                                                                         *)
(* Python strings whose characters matter (file names, date values) are    *)
(* sequences of one-character strings.  Column names are atomic strings.   *)
(* A DataFrame is a record [cols, rows]; a row is [src, cells] where       *)
(* cells maps each column name to a cell and src is the row's origin       *)
(* <<position of the file in the batch, row number in the file>>.          *)
(***************************************************************************)
EXTENDS Integers, Sequences, FiniteSets, TLC

(***************************************************************************)
(* Bounds of the model.                                                    *)
(***************************************************************************)
MaxFiles == 3        \* files handled in one batch
MaxRows == 2         \* data rows of the largest input file
MaxBatchRows == 4    \* data rows of all the tables of one batch
MaxCalls == 2        \* calls of process_dau_files in one session

(***************************************************************************)
(* Characters and Python string operations.                                *)
(***************************************************************************)
Digits == {"0", "1", "2", "3", "4", "5", "6", "7", "8", "9"}

\* The characters of the model in code point order (Python compares strings
\* by code point).
CharOrder ==
    << " ", "-", ".", "/",
       "0", "1", "2", "3", "4", "5", "6", "7", "8", "9", ":",
       "A", "D", "N", "T", "U", "_",
       "a", "b", "c", "d", "e", "f", "g", "h", "i", "j", "k", "l", "m",
       "n", "o", "p", "q", "r", "s", "t", "u", "v", "w", "x", "y", "z" >>

Ord(c) == CHOOSE k \in 1..Len(CharOrder) : CharOrder[k] = c

Min2(a, b) == IF a < b THEN a ELSE b

\* a < b for Python strings
StrLess(a, b) ==
    \E k \in 1..(Min2(Len(a), Len(b)) + 1) :
        /\ \A j \in 1..(k - 1) : a[j] = b[j]
        /\ \/ k > Len(a) /\ k <= Len(b)
           \/ k <= Len(a) /\ k <= Len(b) /\ Ord(a[k]) < Ord(b[k])

StrLeq(a, b) == a = b \/ StrLess(a, b)

\* str.lower() on the upper-case letters of the model
LowerChar(c) ==
    CASE c = "A" -> "a"
      [] c = "D" -> "d"
      [] c = "T" -> "t"
      [] c = "U" -> "u"
      [] OTHER -> c

Lower(s) == [k \in 1..Len(s) |-> LowerChar(s[k])]

StartsWith(s, p) == Len(s) >= Len(p) /\ SubSeq(s, 1, Len(p)) = p

\* sub in s
Contains(s, sub) ==
    \E k \in 1..(Len(s) - Len(sub) + 1) : SubSeq(s, k, k + Len(sub) - 1) = sub

\* s.split(sep) for a one-character separator
RECURSIVE Split(_, _)
Split(s, sep) ==
    IF \A k \in 1..Len(s) : s[k] # sep
    THEN << s >>
    ELSE LET k == CHOOSE k \in 1..Len(s) :
                      s[k] = sep /\ \A j \in 1..(k - 1) : s[j] # sep
         IN  << SubSeq(s, 1, k - 1) >> \o Split(SubSeq(s, k + 1, Len(s)), sep)

\* s.replace(old, new)
RECURSIVE Replace(_, _, _)
Replace(s, old, new) ==
    IF Len(s) < Len(old) \/ Len(s) = 0
    THEN s
    ELSE IF SubSeq(s, 1, Len(old)) = old
         THEN new \o Replace(SubSeq(s, Len(old) + 1, Len(s)), old, new)
         ELSE << s[1] >> \o Replace(Tail(s), old, new)

\* s.strip() for the blank character
RECURSIVE Strip(_)
Strip(s) ==
    IF Len(s) = 0 THEN s
    ELSE IF s[1] = " " THEN Strip(Tail(s))
    ELSE IF s[Len(s)] = " " THEN Strip(SubSeq(s, 1, Len(s) - 1))
    ELSE s

\* s.zfill(2)
Zfill2(s) == IF Len(s) >= 2 THEN s ELSE IF Len(s) = 1 THEN << "0" >> \o s ELSE << "0", "0" >>

IsDigits(s) == Len(s) > 0 /\ \A k \in 1..Len(s) : s[k] \in Digits

DigitVal(c) == Ord(c) - Ord("0")

\* int(s) for a string of digits
RECURSIVE IntOf(_)
IntOf(s) == IF Len(s) = 0 THEN 0 ELSE 10 * IntOf(SubSeq(s, 1, Len(s) - 1)) + DigitVal(s[Len(s)])

DigitChar(d) == CharOrder[Ord("0") + d]

\* str(n) for n >= 0
RECURSIVE StrOf(_)
StrOf(n) == IF n < 10 THEN << DigitChar(n) >> ELSE StrOf(n \div 10) \o << DigitChar(n % 10) >>

\* f"{n:0wd}" for n >= 0
RECURSIVE PadLeft(_, _)
PadLeft(s, w) == IF Len(s) >= w THEN s ELSE PadLeft(<< "0" >> \o s, w)

Slash == << "/" >>

(***************************************************************************)
(* Date helpers.                                                           *)
(***************************************************************************)
\* convert_date_to_sortable without zfill
convert_date_to_sortable_NoPad(date_str) ==
    LET parts == Split(date_str, "/")
    IN  IF Len(parts) = 3
        THEN parts[1] \o parts[2] \o parts[3]
        ELSE date_str

\* convert_date_to_sortable: YYYY/M/D -> YYYYMMDD, anything else unchanged.
convert_date_to_sortable(date_str) ==
    LET parts == Split(date_str, "/")
    IN  IF Len(parts) = 3
        THEN parts[1] \o Zfill2(parts[2]) \o Zfill2(parts[3])
        ELSE date_str

(***************************************************************************)
(* Cells and DataFrames.                                                   *)
(***************************************************************************)
Str(s) == [t |-> "str", s |-> s]
Num(n) == [t |-> "num", n |-> n]
\* a pandas Timestamp at midnight
Ts(y, m, d) == [t |-> "ts", y |-> y, m |-> m, d |-> d]
\* NaN / None / NaT
Null == [t |-> "null"]
\* the literal 'N/A'
NA == Str(<< "N", "/", "A" >>)
\* the literal ''
EmptyStr == Str(<< >>)

\* Python None for a DataFrame-valued slot, and a missing dict key
None == [none |-> TRUE]

Range(f) == {f[k] : k \in DOMAIN f}

\* the sub-sequence of s whose elements are not in the set drop
RECURSIVE Without(_, _)
Without(s, drop) ==
    IF Len(s) = 0 THEN << >>
    ELSE IF s[1] \in drop THEN Without(Tail(s), drop)
    ELSE << s[1] >> \o Without(Tail(s), drop)

\* list(dict.fromkeys(s)): first occurrences, order kept
RECURSIVE Dedup(_)
Dedup(s) ==
    IF Len(s) = 0 THEN << >>
    ELSE << s[1] >> \o Without(Dedup(Tail(s)), {s[1]})

RECURSIVE Flatten(_)
Flatten(ss) == IF Len(ss) = 0 THEN << >> ELSE ss[1] \o Flatten(Tail(ss))

\* df.drop(columns=[c for c in drop if c in df.columns])
DropCols(df, drop) ==
    LET keep == Without(df.cols, drop)
    IN  [cols |-> keep,
         rows |-> [k \in 1..Len(df.rows) |->
                     [df.rows[k] EXCEPT !.cells = [c \in Range(keep) |-> df.rows[k].cells[c]]]]]

\* df[col] = value: overwrite in place, or append as the last column
AssignCol(df, col, value) ==
    [cols |-> IF col \in Range(df.cols) THEN df.cols ELSE Append(df.cols, col),
     rows |-> [k \in 1..Len(df.rows) |->
                 [df.rows[k] EXCEPT !.cells =
                     [c \in Range(df.cols) \cup {col} |->
                         IF c = col THEN value ELSE df.rows[k].cells[c]]]]]

\* the column appended as the last one, as df[col] = value does
InsertCol_Last(df, pos, col, value) == AssignCol(df, col, value)

\* df.insert(pos, col, value), pos counted from 0, col not yet a column
InsertCol(df, pos, col, value) ==
    [cols |-> SubSeq(df.cols, 1, pos) \o << col >> \o SubSeq(df.cols, pos + 1, Len(df.cols)),
     rows |-> [k \in 1..Len(df.rows) |->
                 [df.rows[k] EXCEPT !.cells =
                     [c \in Range(df.cols) \cup {col} |->
                         IF c = col THEN value ELSE df.rows[k].cells[c]]]]]

\* df[cols]: the listed columns in the listed order (all present)
SelectCols(df, cols) ==
    [cols |-> cols,
     rows |-> [k \in 1..Len(df.rows) |->
                 [df.rows[k] EXCEPT !.cells = [c \in Range(cols) |-> df.rows[k].cells[c]]]]]

\* no cell is filled
Fillna_Nothing(df, value) == df

\* df.fillna(value)
Fillna(df, value) ==
    [cols |-> df.cols,
     rows |-> [k \in 1..Len(df.rows) |->
                 [df.rows[k] EXCEPT !.cells =
                     [c \in Range(df.cols) |->
                         IF df.rows[k].cells[c] = Null THEN value
                         ELSE df.rows[k].cells[c]]]]]

\* pd.concat(dfs, ignore_index=True): rows in list order, columns the union in
\* first-seen order, a cell of a column its frame lacks is NaN
Concat(dfs) ==
    LET cols == Dedup(Flatten([k \in 1..Len(dfs) |-> dfs[k].cols]))
        Widen(df) ==
            [k \in 1..Len(df.rows) |->
                [df.rows[k] EXCEPT !.cells =
                    [c \in Range(cols) |->
                        IF c \in Range(df.cols) THEN df.rows[k].cells[c] ELSE Null]]]
    IN  [cols |-> cols,
         rows |-> Flatten([k \in 1..Len(dfs) |-> Widen(dfs[k])])]

\* df.empty: no rows or no columns
IsEmpty(df) == Len(df.rows) = 0 \/ Len(df.cols) = 0

RemoveAt(s, k) == SubSeq(s, 1, k - 1) \o SubSeq(s, k + 1, Len(s))

\* A sort key: the value of the first key column as a string (na when it is
\* NaN, which sort_values puts last) and the value of the second key column
\* as a number (0 when there is no second key).
SortKey(na, s, r) == [na |-> na, s |-> s, r |-> r]

KeyLess(a, b) ==
    \/ ~a.na /\ b.na
    \/ /\ a.na = b.na
       /\ \/ ~a.na /\ StrLess(a.s, b.s)
          \/ (a.na \/ a.s = b.s) /\ a.r < b.r

\* df.sort_values(by=col) with the default kind='quicksort': rows in
\* non-decreasing key order; the order of rows with equal keys is not
\* specified (quicksort is not stable), so every arrangement of ties is a
\* possible outcome.  items is a sequence of [key, row].
RECURSIVE UnstableSorts(_)
UnstableSorts(items) ==
    IF Len(items) = 0 THEN {<< >>}
    ELSE LET least == {k \in 1..Len(items) :
                          \A j \in 1..Len(items) : ~KeyLess(items[j].key, items[k].key)}
         IN  UNION {{<< items[k].row >> \o rest :
                        rest \in UnstableSorts(RemoveAt(items, k))} : k \in least}

\* df.sort_values(by=[k1, k2]): more than one key is sorted by pandas'
\* lexsort_indexer, which is stable: rows with equal keys keep their order.
RECURSIVE StableSort(_)
StableSort(items) ==
    IF Len(items) = 0 THEN << >>
    ELSE LET k == CHOOSE k \in 1..Len(items) :
                      /\ \A j \in 1..Len(items) : ~KeyLess(items[j].key, items[k].key)
                      /\ \A j \in 1..(k - 1) : KeyLess(items[k].key, items[j].key)
         IN  << items[k].row >> \o StableSort(RemoveAt(items, k))

(***************************************************************************)
(* process_dau_files: inputs.                                              *)
(***************************************************************************)
\* the keys of channel_dfs, in the dict's order
DauChannels == << "mvp", "and", "ios" >>

ChannelChars ==
    [mvp |-> << "m", "v", "p" >>, and |-> << "a", "n", "d" >>, ios |-> << "i", "o", "s" >>]

\* file names the classifier accepts
AcceptedDauNames ==
    {
      << "d", "a", "u", "_", "m", "v", "p", "_", "3", ".", "1", "7", ".", "c", "s", "v" >>,   \* dau_mvp_3.17.csv
      << "d", "a", "u", "_", "m", "v", "p", "_", "3", ".", "9", ".", "c", "s", "v" >>,   \* dau_mvp_3.9.csv
      << "d", "a", "u", "_", "a", "n", "d", "_", "3", ".", "1", "7", ".", "c", "s", "v" >>,   \* dau_and_3.17.csv
      << "d", "a", "u", "_", "i", "o", "s", "_", "3", ".", "1", "7", ".", "c", "s", "v" >>,   \* dau_ios_3.17.csv
      << "d", "a", "u", "_", "i", "o", "s", "_", "n", "e", "w", ".", "c", "s", "v" >>   \* dau_ios_new.csv
    }

\* file names the classifier rejects: 7 characters, upper-case prefix,
\* another 3-character slice, no "dau" at all
RejectedDauNames ==
    {
      << "d", "a", "u", "_", "m", "v", "p" >>,   \* dau_mvp
      << "D", "A", "U", "_", "m", "v", "p", "_", "3", ".", "9", ".", "c", "s", "v" >>,   \* DAU_mvp_3.9.csv
      << "d", "a", "u", "_", "w", "e", "b", "_", "3", ".", "9", ".", "c", "s", "v" >>,   \* dau_web_3.9.csv
      << "r", "e", "p", "o", "r", "t", ".", "c", "s", "v" >>   \* report.csv
    }

DauNames == AcceptedDauNames \cup RejectedDauNames

\* the iOS whitelist
ExpectedIosColumns ==
    << "date", "Country", "Impressions", "Clicks", "Installs", "Conversion Rate",
       "Activity Sessions", "Cost", "Activity Revenue", "Average eCPIUS$2.31",
       "Average DAU", "Average MAU", "Average DAU/MAU Rate", "ARPDAU" >>

\* the columns dropped from every DAU file
ColumnsToDrop == {"Total Conversions", "Re-attribution", "Re-engagement"}

\* headers of the input files: the reference, one with the columns in another
\* order and one more column, one that lacks Cost and carries a column of the
\* drop list, the iOS problem column, a column named sort_key and a column
\* outside the iOS whitelist, one that already has a date column
HeaderBase == << "Country", "Installs", "Cost" >>
HeaderExtra == << "Cost", "Country", "Installs", "Clicks" >>
HeaderDropped ==
    << "Country", "Total Conversions", "Average eCPIUS$2.50", "sort_key", "Installs",
       "Region" >>
HeaderWithDate == << "date", "Country" >>

\* An uploaded csv file: its header, its number of data rows and the cells
\* that are empty (read as NaN); readable is FALSE for bytes read_csv cannot
\* parse or decode.
CsvFile(name, readable, cols, nrows, nulls) ==
    [name |-> name, readable |-> readable, cols |-> cols, nrows |-> nrows, nulls |-> nulls]

UnreadableContent == [readable |-> FALSE, cols |-> << >>, nrows |-> 0, nulls |-> {}]

DauContents ==
    { [readable |-> TRUE, cols |-> HeaderBase, nrows |-> MaxRows, nulls |-> {<< 1, "Cost" >>}],
      [readable |-> TRUE, cols |-> HeaderExtra, nrows |-> 1, nulls |-> {<< 1, "Clicks" >>}],
      [readable |-> TRUE, cols |-> HeaderDropped, nrows |-> 1, nulls |-> {}],
      [readable |-> TRUE, cols |-> HeaderWithDate, nrows |-> 1, nulls |-> {}],
      [readable |-> TRUE, cols |-> HeaderBase, nrows |-> 0, nulls |-> {}],
      UnreadableContent }

\* The files of a batch.  The loop never reads a file whose name it rejects,
\* so one content stands for all contents of such a file.
DauFiles ==
    {CsvFile(n, c.readable, c.cols, c.nrows, c.nulls) :
        n \in AcceptedDauNames, c \in DauContents}
    \cup {CsvFile(n, TRUE, HeaderExtra, 1, {}) : n \in RejectedDauNames}

\* ReadCsv that loses the first data line
ReadCsv_SkipsLine(file, i) ==
    [cols |-> file.cols,
     rows |-> [r \in 1..(file.nrows - 1) |->
                 [src |-> << i, r + 1 >>,
                  cells |-> [c \in Range(file.cols) |->
                               IF << r + 1, c >> \in file.nulls THEN Null ELSE Num(r + 1)]]]]

\* pd.read_csv of the i-th file of the batch: one row per data line, an empty
\* cell is NaN, any other cell a number
ReadCsv(file, i) ==
    [cols |-> file.cols,
     rows |-> [r \in 1..file.nrows |->
                 [src |-> << i, r >>,
                  cells |-> [c \in Range(file.cols) |->
                               IF << r, c >> \in file.nulls THEN Null ELSE Num(r)]]]]

(***************************************************************************)
(* process_dau_files: the per-file step.                                   *)
(***************************************************************************)
\* ClassifyDau with the prefix tested on the lower-cased name
ClassifyDau_AnyCase(filename) ==
    IF ~Contains(Lower(filename), << "d", "a", "u" >>)
    THEN ""
    ELSE IF Len(filename) > 7 /\ StartsWith(Lower(filename), << "d", "a", "u", "_" >>)
         THEN LET channel == SubSeq(filename, 5, 7)
              IN  IF \E ch \in Range(DauChannels) : ChannelChars[ch] = channel
                  THEN CHOOSE ch \in Range(DauChannels) : ChannelChars[ch] = channel
                  ELSE ""
         ELSE ""

\* The channel key of a file name, or "" when the file is skipped.
ClassifyDau(filename) ==
    IF ~Contains(Lower(filename), << "d", "a", "u" >>)
    THEN ""
    ELSE IF Len(filename) > 7 /\ StartsWith(filename, << "d", "a", "u", "_" >>)
         THEN LET channel == SubSeq(filename, 5, 7)
              IN  IF \E ch \in Range(DauChannels) : ChannelChars[ch] = channel
                  THEN CHOOSE ch \in Range(DauChannels) : ChannelChars[ch] = channel
                  ELSE ""
         ELSE ""

\* the last index of the run of digits that starts at k
DigitRunEnd(s, k) ==
    CHOOSE e \in k..Len(s) :
        /\ \A j \in k..e : s[j] \in Digits
        /\ e = Len(s) \/ s[e + 1] \notin Digits

\* re.search(r'(\d+)\.(\d+)', s) matches at k
MatchesAt(s, k) ==
    /\ s[k] \in Digits
    /\ LET e == DigitRunEnd(s, k)
       IN  e + 2 <= Len(s) /\ s[e + 1] = "." /\ s[e + 2] \in Digits

\* The date of a file, from its name.
ExtractDate(filename) ==
    LET parts == Split(filename, "_")
        date_part == Replace(parts[Len(parts)], << ".", "c", "s", "v" >>, << >>)
        starts == {k \in 1..Len(date_part) : MatchesAt(date_part, k)}
    IN  IF starts # {}
        THEN LET k == CHOOSE k \in starts : \A j \in starts : k <= j
                 e == DigitRunEnd(date_part, k)
                 month == SubSeq(date_part, k, e)
                 day == SubSeq(date_part, e + 2, DigitRunEnd(date_part, e + 2))
             IN  << "2", "0", "2", "5", "/" >> \o month \o Slash \o day
        ELSE date_part

\* for col in cols: df[col] = value
RECURSIVE AssignAll(_, _, _)
AssignAll(df, cols, value) ==
    IF Len(cols) = 0 THEN df
    ELSE AssignAll(AssignCol(df, cols[1], value), Tail(cols), value)

\* Reconcile without the final df[standard]: the columns keep the file's order
Reconcile_Unordered(df, standard) ==
    IF df.cols # standard
    THEN LET missing_cols == Without(standard, Range(df.cols))
             extra_cols == Without(df.cols, Range(standard))
         IN  DropCols(AssignAll(df, missing_cols, NA), Range(extra_cols))
    ELSE df

\* Reprojection of a table onto the standard columns of its channel.
Reconcile(df, standard) ==
    IF df.cols # standard
    THEN LET missing_cols == Without(standard, Range(df.cols))
             extra_cols == Without(df.cols, Range(standard))
         IN  SelectCols(DropCols(AssignAll(df, missing_cols, NA), Range(extra_cols)),
                        standard)
    ELSE df

\* last-seen-wins: every file replaces the standard columns of its channel
NewStandard_LastSeen(standard, cols) == cols

\* standard_columns[channel] after a file with the columns cols: set by the
\* first file only.
NewStandard(standard, cols) == IF standard = << >> THEN cols ELSE standard

\* DauFileStep with a date insertion that does not fail: a file that already
\* has a date column is accepted with that column
DauFileStep_InsertNeverFails(file, i, standard) ==
    LET channel == ClassifyDau(file.name)
        raw == ReadCsv(file, i)
        dropped == DropCols(raw, ColumnsToDrop)
        dated == IF "date" \in Range(dropped.cols) THEN dropped
                 ELSE InsertCol(dropped, 0, "date", Str(ExtractDate(file.name)))
        ios_fixed == IF channel = "ios" THEN DropCols(dated, {"Average eCPIUS$2.50"})
                     ELSE dated
        new_standard == NewStandard(standard, ios_fixed.cols)
    IN  IF channel = "" \/ ~file.readable THEN [accepted |-> FALSE]
        ELSE IF IsEmpty(raw) THEN [accepted |-> FALSE]
        ELSE [accepted |-> TRUE,
              channel |-> channel,
              standard |-> new_standard,
              df |-> Fillna(Reconcile(ios_fixed, new_standard), NA)]

\* The table a file contributes and its channel, when the iteration reaches
\* channel_dfs[channel].append(df); accepted is FALSE when the iteration ends
\* in a continue (name not recognised, unreadable, empty, or an exception:
\* df.insert raises ValueError when the file already has a date column).
\* standard is standard_columns[channel], << >> for None.
DauFileStep(file, i, standard) ==
    LET channel == ClassifyDau(file.name)
        raw == ReadCsv(file, i)
        dropped == DropCols(raw, ColumnsToDrop)
        dated == InsertCol(dropped, 0, "date", Str(ExtractDate(file.name)))
        ios_fixed == IF channel = "ios" THEN DropCols(dated, {"Average eCPIUS$2.50"})
                     ELSE dated
        new_standard == NewStandard(standard, ios_fixed.cols)
    IN  IF channel = "" \/ ~file.readable THEN [accepted |-> FALSE]
        ELSE IF IsEmpty(raw) THEN [accepted |-> FALSE]
        ELSE IF "date" \in Range(dropped.cols) THEN [accepted |-> FALSE]
        ELSE [accepted |-> TRUE,
              channel |-> channel,
              standard |-> new_standard,
              df |-> Fillna(Reconcile(ios_fixed, new_standard), NA)]

(***************************************************************************)
(* process_dau_files: the merge after the loop.                            *)
(***************************************************************************)
\* The second consistency pass over df_list (more than one table).
EnsureConsistent(df_list) ==
    IF Len(df_list) > 1
    THEN [k \in 1..Len(df_list) |->
             IF Range(df_list[k].cols) # Range(df_list[1].cols)
             THEN Reconcile(df_list[k], df_list[1].cols)
             ELSE df_list[k]]
    ELSE df_list

\* ForceIosColumns without the drop of the columns outside the whitelist
ForceIosColumns_KeepExtra(df) ==
    AssignAll(df, Without(ExpectedIosColumns, Range(df.cols)), NA)

\* The final pass of the ios channel.
ForceIosColumns(df) ==
    LET extra_columns == Without(df.cols, Range(ExpectedIosColumns))
        trimmed == DropCols(df, Range(extra_columns))
        missing_columns == Without(ExpectedIosColumns, Range(trimmed.cols))
    IN  SelectCols(AssignAll(trimmed, missing_columns, NA), ExpectedIosColumns)

\* rows with the key convert_date_to_sortable(date)
DateKeyed(rows) ==
    [k \in 1..Len(rows) |->
        [key |-> SortKey(FALSE, convert_date_to_sortable(rows[k].cells["date"].s), 0),
         row |-> rows[k]]]

\* The merged tables one channel can end with: the concatenation sorted on
\* the sort_key column, which is then dropped (with a sort_key column of the
\* input, which the assignment overwrote).
MergeChannel(channel, df_list) ==
    LET merged == Concat(EnsureConsistent(df_list))
        Finish(rows) ==
            LET sorted == Fillna(DropCols([cols |-> merged.cols, rows |-> rows],
                                          {"sort_key"}), NA)
            IN  IF channel = "ios" THEN ForceIosColumns(sorted) ELSE sorted
    IN  {Finish(rows) : rows \in UnstableSorts(DateKeyed(merged.rows))}

(***************************************************************************)
(* force_standardize_date.                                                 *)
(***************************************************************************)
\* str(v) of a cell that is not NaN
CellText(v) ==
    CASE v.t = "str" -> v.s
      [] v.t = "num" -> StrOf(v.n)
      [] v.t = "ts" -> PadLeft(StrOf(v.y), 4) \o << "-" >> \o PadLeft(StrOf(v.m), 2)
                       \o << "-" >> \o PadLeft(StrOf(v.d), 2)
                       \o << " ", "0", "0", ":", "0", "0", ":", "0", "0" >>

\* int(s) succeeds: digits, possibly between blanks
IntParses(s) == IsDigits(Strip(s))

\* force_standardize_date writing month/day/year
force_standardize_date_MonthFirst(date_str) ==
    IF date_str = Null THEN date_str
    ELSE IF Strip(CellText(date_str)) = << >> THEN date_str
    ELSE LET stripped == Strip(CellText(date_str))
             slashed == IF Contains(stripped, << "-" >>)
                        THEN Replace(stripped, << "-" >>, Slash)
                        ELSE stripped
             parts == Split(slashed, "/")
         IN  IF /\ Contains(slashed, Slash)
                /\ Len(parts) = 3
                /\ \A k \in 1..3 : IntParses(parts[k])
             THEN Str(PadLeft(StrOf(IntOf(Strip(parts[2]))), 2) \o Slash
                      \o PadLeft(StrOf(IntOf(Strip(parts[3]))), 2) \o Slash
                      \o PadLeft(StrOf(IntOf(Strip(parts[1]))), 4))
             ELSE Str(slashed)

force_standardize_date(date_str) ==
    IF date_str = Null THEN date_str
    ELSE IF Strip(CellText(date_str)) = << >> THEN date_str
    ELSE LET stripped == Strip(CellText(date_str))
             slashed == IF Contains(stripped, << "-" >>)
                        THEN Replace(stripped, << "-" >>, Slash)
                        ELSE stripped
             parts == Split(slashed, "/")
         IN  IF /\ Contains(slashed, Slash)
                /\ Len(parts) = 3
                /\ \A k \in 1..3 : IntParses(parts[k])
             THEN Str(PadLeft(StrOf(IntOf(Strip(parts[1]))), 4) \o Slash
                      \o PadLeft(StrOf(IntOf(Strip(parts[2]))), 2) \o Slash
                      \o PadLeft(StrOf(IntOf(Strip(parts[3]))), 2))
             ELSE Str(slashed)

\* df[col] = df[col].apply(force_standardize_date)
StandardizeCol(df, col) ==
    [cols |-> df.cols,
     rows |-> [k \in 1..Len(df.rows) |->
                 [df.rows[k] EXCEPT !.cells[col] =
                     force_standardize_date(df.rows[k].cells[col])]]]

(***************************************************************************)
(* create_integrated_dau.                                                  *)
(***************************************************************************)
\* The column the source names '三端' is "channel" here and the helper column
\* '渠道排序' is "channel_rank" (both names are outside the character set of
\* this language's strings).
\* channel_mapping.get(channel, channel), as the text of the cell
ChannelMapping(channel) ==
    CASE channel = "and" -> << "a", "n", "d", "r", "o", "i", "d" >>
      [] channel = "mvp" -> << "m", "v", "p" >>
      [] channel = "ios" -> << "i", "o", "s" >>
      [] channel = "ios_formal" -> << "i", "o", "s" >>

\* Series.map(channel_order): the rank of a channel cell
ChannelOrder(cell) ==
    CASE cell = Str(<< "m", "v", "p" >>) -> 0
      [] cell = Str(<< "a", "n", "d", "r", "o", "i", "d" >>) -> 1
      [] cell = Str(<< "i", "o", "s" >>) -> 2

EmptyFrame == [cols |-> << >>, rows |-> << >>]

\* the keys of a dict of tables, in order
PresentKeys(order, data) == Without(order, {ch \in Range(order) : data[ch] = None})

\* The last step of create_integrated_dau.
TruncateColumns(df) ==
    IF Len(df.cols) > 16
    THEN LET first_15_cols == SubSeq(df.cols, 1, 15)
         IN  IF "channel" \in Range(df.cols) /\ "channel" \notin Range(first_15_cols)
             THEN SelectCols(df, Append(first_15_cols, "channel"))
             ELSE df
    ELSE df

\* rows with the keys (convert_date_to_sortable(date), rank of the channel)
DateChannelKeyed(rows) ==
    [k \in 1..Len(rows) |->
        [key |-> SortKey(FALSE, convert_date_to_sortable(rows[k].cells["date"].s),
                         ChannelOrder(rows[k].cells["channel"])),
         row |-> rows[k]]]

\* merged_data is None or a function from DauChannels to a table or None
create_integrated_dau(merged_data) ==
    IF merged_data = None THEN EmptyFrame
    ELSE LET keys == PresentKeys(DauChannels, merged_data)
             integrated_dfs ==
                 [k \in 1..Len(keys) |->
                     InsertCol(merged_data[keys[k]], 1, "channel",
                               Str(ChannelMapping(keys[k])))]
             unique_columns == Dedup(Flatten([k \in 1..Len(keys) |-> integrated_dfs[k].cols]))
             standardized_dfs ==
                 [k \in 1..Len(keys) |->
                     SelectCols(AssignAll(integrated_dfs[k],
                                          Without(unique_columns,
                                                  Range(integrated_dfs[k].cols)), NA),
                                unique_columns)]
             integrated_df == Concat(standardized_dfs)
             dated == IF "date" \in Range(integrated_df.cols)
                      THEN StandardizeCol(integrated_df, "date")
                      ELSE integrated_df
             sorted == [cols |-> dated.cols, rows |-> StableSort(DateChannelKeyed(dated.rows))]
         IN  IF Len(keys) = 0 THEN EmptyFrame
             ELSE TruncateColumns(Fillna(DropCols(sorted, {"sort_key", "channel_rank"}), NA))

(***************************************************************************)
(* process_retention_files: configuration and inputs.                      *)
(***************************************************************************)
\* the keys of channels_config, in the dict's order
RetChannels == << "ios", "ios_formal", "mvp", "and" >>

\* config['pattern'].lower()
RetPattern(channel) ==
    CASE channel = "ios" -> << "r", "e", "t", "e", "n", "t", "i", "o", "n", "_", "i", "o", "s", ".", "c", "s", "v" >>
      [] channel = "ios_formal" -> << "r", "e", "t", "e", "n", "t", "i", "o", "n", "_", "i", "o", "s", "_", "f", "o", "r", "m", "a", "l", ".", "c", "s", "v" >>
      [] channel = "mvp" -> << "r", "e", "t", "e", "n", "t", "i", "o", "n", "_", "m", "v", "p", ".", "c", "s", "v" >>
      [] channel = "and" -> << "r", "e", "t", "e", "n", "t", "i", "o", "n", "_", "a", "n", "d", ".", "c", "s", "v" >>

\* config['empty_columns']
EmptyColumns(channel) ==
    CASE channel = "ios" -> 4
      [] channel = "ios_formal" -> 4
      [] channel = "mvp" -> 1
      [] channel = "and" -> 0

\* every channel with day 30
RetDays_AllThirty(channel) == << 1, 2, 3, 4, 5, 6, 7, 14, 30 >>

\* config['days']
RetDays(channel) ==
    IF channel = "mvp" THEN << 1, 2, 3, 4, 5, 6, 7, 14 >>
    ELSE << 1, 2, 3, 4, 5, 6, 7, 14, 30 >>

\* ' ' * (j + 1) for j = 0..3
PaddingNames == << " ", "  ", "   ", "    " >>

AllDays == << 1, 2, 3, 4, 5, 6, 7, 14, 30 >>

DayIndex(day) == CHOOSE k \in 1..Len(AllDays) : AllDays[k] = day

\* f'sessions - Unique users - day {day} - partial'
RetentionColumn(day) ==
    << "sessions - Unique users - day 1 - partial",
       "sessions - Unique users - day 2 - partial",
       "sessions - Unique users - day 3 - partial",
       "sessions - Unique users - day 4 - partial",
       "sessions - Unique users - day 5 - partial",
       "sessions - Unique users - day 6 - partial",
       "sessions - Unique users - day 7 - partial",
       "sessions - Unique users - day 14 - partial",
       "sessions - Unique users - day 30 - partial" >>[DayIndex(day)]

\* f'sessions - Unique users - day {day}'
AlternativeColumn(day) ==
    << "sessions - Unique users - day 1", "sessions - Unique users - day 2",
       "sessions - Unique users - day 3", "sessions - Unique users - day 4",
       "sessions - Unique users - day 5", "sessions - Unique users - day 6",
       "sessions - Unique users - day 7", "sessions - Unique users - day 14",
       "sessions - Unique users - day 30" >>[DayIndex(day)]

\* f'day{day}'
DayColumn(day) ==
    << "day1", "day2", "day3", "day4", "day5", "day6", "day7", "day14", "day30" >>
        [DayIndex(day)]

PossibleDateColumns == << "Date", "date", "riqi", "DAY", "Day", "day" >>
PossibleUsersColumns == << "users", "yonghushu", "DAU", "User Count", "user_count" >>

\* the first element of candidates that is a column, or "" when none is
FirstPresent(candidates, cols) ==
    IF \E k \in 1..Len(candidates) : candidates[k] \in Range(cols)
    THEN candidates[CHOOSE k \in 1..Len(candidates) :
                        /\ candidates[k] \in Range(cols)
                        /\ \A j \in 1..(k - 1) : candidates[j] \notin Range(cols)]
    ELSE ""

\* file names of retention uploads the loop accepts
AcceptedRetNames ==
    {
      << "r", "e", "t", "e", "n", "t", "i", "o", "n", "_", "i", "o", "s", ".", "c", "s", "v" >>,   \* retention_ios.csv
      << "r", "e", "t", "e", "n", "t", "i", "o", "n", "_", "i", "o", "s", "_", "f", "o", "r", "m", "a", "l", ".", "c", "s", "v" >>,   \* retention_ios_formal.csv
      << "r", "e", "t", "e", "n", "t", "i", "o", "n", "_", "m", "v", "p", ".", "c", "s", "v" >>,   \* retention_mvp.csv
      << "r", "e", "t", "e", "n", "t", "i", "o", "n", "_", "a", "n", "d", ".", "c", "s", "v" >>   \* retention_and.csv
    }

RejectedRetNames ==
    {
      << "r", "e", "t", "e", "n", "t", "i", "o", "n", "_", "w", "e", "b", ".", "c", "s", "v" >>   \* retention_web.csv
    }

\* date values of the inputs
Date0309 == Str(<< "2", "0", "2", "5", "-", "0", "3", "-", "0", "9" >>)
Date0310 == Str(<< "2", "0", "2", "5", "-", "0", "3", "-", "1", "0" >>)
Date39 == Str(<< "2", "0", "2", "5", "/", "3", "/", "9" >>)
Date317 == Str(<< "2", "0", "2", "5", "/", "3", "/", "1", "7" >>)
DateTotal == Str(<< "T", "o", "t", "a", "l" >>)

\* A data line of a retention file: the value of its date column, of its
\* users column and of each of its session-count columns.
RetLine(date, users, sessions) == [date |-> date, users |-> users, sessions |-> sessions]

\* headers and lines of the retention inputs
RetHeaderFull ==
    << "Cohort Day", "Ltv Country", "Users",
       "sessions - Unique users - day 1 - partial",
       "sessions - Unique users - day 14- partial" >>
RetHeaderAlternative ==
    << "Cohort Day", "Users", "sessions - Unique users - day 1", "Notes",
       "Unnamed: 16" >>
RetHeaderFallback ==
    << "Date", "users", "sessions - Unique users - day 30 - partial",
       "sessions - Unique users - day 30- partial" >>
RetHeaderNoUsers == << "Cohort Day", "sessions - Unique users - day 1 - partial" >>
RetHeaderMixed == << "Cohort Day", "Users", "sessions - Unique users - day 2 - partial" >>
RetHeaderNoDate == << "Users", "sessions - Unique users - day 1 - partial" >>

\* every date parses; the lines are not in date order
RetContentFull ==
    [readable |-> TRUE, cols |-> RetHeaderFull,
     lines |-> SubSeq(<< RetLine(Date0310, Num(100), Num(37)),
                         RetLine(Date0309, Num(3), Num(2)),
                         RetLine(Date0309, Num(0), Num(0)) >>, 1, MaxRows)]

\* a line whose date does not parse, before a line whose date sorts before
\* it as text
RetContentAlternative ==
    [readable |-> TRUE, cols |-> RetHeaderAlternative,
     lines |-> SubSeq(<< RetLine(DateTotal, Num(100), Null),
                         RetLine(Date39, Num(32), Num(1)),
                         RetLine(Date317, Num(3), Num(2)) >>, 1, MaxRows)]

\* slash dates, the date and users columns under fallback names
RetContentFallback ==
    [readable |-> TRUE, cols |-> RetHeaderFallback,
     lines |-> << RetLine(Date317, Num(100), Num(50)) >>]

RetContentNoUsers ==
    [readable |-> TRUE, cols |-> RetHeaderNoUsers,
     lines |-> << RetLine(Date0309, Null, Num(1)) >>]

RetContentNoDate ==
    [readable |-> TRUE, cols |-> RetHeaderNoDate,
     lines |-> << RetLine(Null, Num(100), Num(1)) >>]

\* the users are text (a thousands separator): the division raises
RetContentTextUsers ==
    [readable |-> TRUE, cols |-> RetHeaderNoUsers \o << "Users" >>,
     lines |-> << RetLine(Date0309, Str(<< "1", ",", "2", "3", "4" >>), Num(1)) >>]

\* a date column that read_csv left with text and numbers mixed (its type
\* inference by blocks of a large file): the values cannot be compared
RetContentMixed ==
    [readable |-> TRUE, cols |-> RetHeaderMixed,
     lines |-> << RetLine(DateTotal, Num(100), Num(50)),
                  RetLine(Num(20250309), Num(100), Num(37)) >>]

RetContentUnreadable == [readable |-> FALSE, cols |-> << >>, lines |-> << >>]

RetContents ==
    { RetContentFull, RetContentAlternative, RetContentFallback, RetContentNoUsers,
      RetContentNoDate, RetContentTextUsers, RetContentMixed, RetContentUnreadable }

RetFile(name, content) ==
    [name |-> name, readable |-> content.readable, cols |-> content.cols,
     lines |-> content.lines]

\* The files of a retention batch.  The loop never reads a file whose name it
\* rejects, so one content stands for all contents of such a file.
RetFiles ==
    {RetFile(n, c) : n \in AcceptedRetNames, c \in RetContents}
    \cup {RetFile(n, RetContentFallback) : n \in RejectedRetNames}

\* the spellings without the space before the dash
IsVariantColumn(c) ==
    c \in {"sessions - Unique users - day 14- partial",
           "sessions - Unique users - day 30- partial"}

IsSessionsColumn(c) ==
    \E k \in 1..Len(AllDays) :
        c \in {RetentionColumn(AllDays[k]), AlternativeColumn(AllDays[k])}

\* pd.read_csv of the i-th file of the batch
ReadRetCsv(file, i) ==
    [cols |-> file.cols,
     rows |-> [r \in 1..Len(file.lines) |->
                 [src |-> << i, r >>,
                  cells |-> [c \in Range(file.cols) |->
                               IF c \in {"Cohort Day"} \cup Range(PossibleDateColumns)
                               THEN file.lines[r].date
                               ELSE IF c \in {"Users"} \cup Range(PossibleUsersColumns)
                               THEN file.lines[r].users
                               ELSE IF IsSessionsColumn(c)
                               THEN file.lines[r].sessions
                               ELSE IF IsVariantColumn(c)
                               THEN (IF file.lines[r].sessions = Null THEN Null
                                     ELSE Num(file.lines[r].sessions.n + 1))
                               ELSE Str(<< "x" >>)]]]]

(***************************************************************************)
(* process_retention_files: one file.                                      *)
(***************************************************************************)
\* the first channel of channels_config whose pattern is a substring of the
\* lower-cased file name, "" when there is none
ClassifyRetention(name) ==
    LET filename == Lower(name)
        hits == {k \in 1..Len(RetChannels) : Contains(filename, RetPattern(RetChannels[k]))}
    IN  IF hits = {} THEN ""
        ELSE RetChannels[CHOOSE k \in hits : \A j \in hits : k <= j]

\* pd.to_datetime accepts the value: NaN, or year, month and day in digits
\* separated by - or by /
DateParses(v) ==
    \/ v = Null
    \/ /\ v.t = "str"
       /\ LET parts == Split(Replace(v.s, << "-" >>, Slash), "/")
          IN  /\ Len(parts) = 3
              /\ \A k \in 1..3 : IsDigits(parts[k])
              /\ Len(parts[1]) = 4
              /\ IntOf(parts[2]) \in 1..12
              /\ IntOf(parts[3]) \in 1..31

\* pd.to_datetime of a value it accepts
ToDatetime(v) ==
    IF v = Null THEN Null
    ELSE LET parts == Split(Replace(v.s, << "-" >>, Slash), "/")
         IN  Ts(IntOf(parts[1]), IntOf(parts[2]), IntOf(parts[3]))

\* df[date_column] = pd.to_datetime(df[date_column]), every value accepted
ToDatetimeCol(df, col) ==
    [cols |-> df.cols,
     rows |-> [k \in 1..Len(df.rows) |->
                 [df.rows[k] EXCEPT !.cells[col] = ToDatetime(df.rows[k].cells[col])]]]

\* rows with the key sort_values(by=date_column) compares: the instant of a
\* Timestamp, the text of a string, NaN and NaT last
DateColumnKeyed(rows, date_column) ==
    [k \in 1..Len(rows) |->
        LET v == rows[k].cells[date_column]
        IN  [key |-> IF v = Null THEN SortKey(TRUE, << >>, 0)
                     ELSE IF v.t = "ts"
                     THEN SortKey(FALSE, PadLeft(StrOf(v.y), 4) \o PadLeft(StrOf(v.m), 2)
                                         \o PadLeft(StrOf(v.d), 2), 0)
                     ELSE SortKey(FALSE, v.s, 0),
             row |-> rows[k]]]

\* SortByDate without the second attempt: the rows are left as they are when
\* a value does not parse
SortByDate_NoSecondSort(df, date_column) ==
    IF \A k \in 1..Len(df.rows) : DateParses(df.rows[k].cells[date_column])
    THEN {[cols |-> df.cols, rows |-> rows] :
             rows \in UnstableSorts(DateColumnKeyed(ToDatetimeCol(df, date_column).rows,
                                                    date_column))}
    ELSE {df}

\* The sorting step: the tables it can leave in df.  The column is converted
\* and the rows sorted when every value parses; otherwise the rows are
\* sorted on the unconverted values, and left as they are when those cannot
\* be compared with each other.
SortByDate(df, date_column) ==
    LET values == {df.rows[k].cells[date_column] : k \in 1..Len(df.rows)}
        converted == ToDatetimeCol(df, date_column)
    IN  IF \A v \in values : DateParses(v)
        THEN {[cols |-> df.cols, rows |-> rows] :
                 rows \in UnstableSorts(DateColumnKeyed(converted.rows, date_column))}
        ELSE IF \A v \in values : v = Null \/ v.t = "str"
        THEN {[cols |-> df.cols, rows |-> rows] :
                 rows \in UnstableSorts(DateColumnKeyed(df.rows, date_column))}
        ELSE {df}

\* the quotient cut to an integer instead of rounded
RoundHalfEven_Down(p, q) == p \div q

\* The quotient rounded to the nearest integer, a tie to the even one
\* (Series.round(4) is rint(x * 10000) / 10000).
RoundHalfEven(p, q) ==
    LET f == p \div q
        r == p % q
    IN  IF 2 * r < q THEN f
        ELSE IF 2 * r > q THEN f + 1
        ELSE IF f % 2 = 0 THEN f ELSE f + 1

\* a float with four decimals: n / 10000
Dec4(n) == [t |-> "dec4", n |-> n]
\* float('inf')
Inf == [t |-> "inf"]

\* (sessions / users).round(4) of one row
RetentionRate(sessions, users) ==
    IF sessions = Null \/ users = Null THEN Null
    ELSE IF users.n = 0 THEN (IF sessions.n = 0 THEN Null ELSE Inf)
    ELSE Dec4(RoundHalfEven(10000 * sessions.n, users.n))

\* df[target] = df[source]
CopyCol(df, target, source) ==
    [cols |-> IF target \in Range(df.cols) THEN df.cols ELSE Append(df.cols, target),
     rows |-> [k \in 1..Len(df.rows) |->
                 [df.rows[k] EXCEPT !.cells =
                     [c \in Range(df.cols) \cup {target} |->
                         IF c = target THEN df.rows[k].cells[source]
                         ELSE df.rows[k].cells[c]]]]]

\* df[f'day{day}'] = (df[retention_column] / df[users_column]).round(4)
AddDayColumn(df, day, users_column) ==
    [cols |-> IF DayColumn(day) \in Range(df.cols) THEN df.cols
              ELSE Append(df.cols, DayColumn(day)),
     rows |-> [k \in 1..Len(df.rows) |->
                 [df.rows[k] EXCEPT !.cells =
                     [c \in Range(df.cols) \cup {DayColumn(day)} |->
                         IF c = DayColumn(day)
                         THEN RetentionRate(df.rows[k].cells[RetentionColumn(day)],
                                            df.rows[k].cells[users_column])
                         ELSE df.rows[k].cells[c]]]]]

\* the loop over config['days']
RECURSIVE AddDays(_, _, _)
AddDays(df, days, users_column) ==
    IF Len(days) = 0 THEN df
    ELSE LET day == days[1]
             next == IF RetentionColumn(day) \in Range(df.cols)
                     THEN AddDayColumn(df, day, users_column)
                     ELSE IF AlternativeColumn(day) \in Range(df.cols)
                     THEN AddDayColumn(CopyCol(df, RetentionColumn(day),
                                               AlternativeColumn(day)),
                                       day, users_column)
                     ELSE df
         IN  AddDays(next, Tail(days), users_column)

\* the division raises: a value of the column is neither a number nor NaN
Divides(df, col) ==
    \A k \in 1..Len(df.rows) : df.rows[k].cells[col] = Null \/ df.rows[k].cells[col].t = "num"

\* the loop over range(config['empty_columns'])
AddEmptyColumns(df, channel) ==
    AssignAll(df, SubSeq(PaddingNames, 1, EmptyColumns(channel)), Null)

\* One iteration of the loop over uploaded_files, for the i-th file: the
\* file is skipped (accepted is FALSE), or processed_data[channel] is set to
\* one of the tables of dfs.
RetentionFileStep(file, i) ==
    LET channel == ClassifyRetention(file.name)
        df == ReadRetCsv(file, i)
        date_column == IF "Cohort Day" \in Range(df.cols) THEN "Cohort Day"
                       ELSE FirstPresent(PossibleDateColumns, df.cols)
        users_column == IF "Users" \in Range(df.cols) THEN "Users"
                        ELSE FirstPresent(PossibleUsersColumns, df.cols)
        days == RetDays(channel)
        used == {RetentionColumn(days[k]) : k \in 1..Len(days)}
                \cup {AlternativeColumn(days[k]) : k \in 1..Len(days)}
        Finish(sorted) == AddDays(AddEmptyColumns(sorted, channel), days, users_column)
    IN  IF channel = "" THEN [accepted |-> FALSE]
        ELSE IF ~file.readable THEN [accepted |-> FALSE]
        ELSE IF date_column = "" \/ users_column = "" THEN [accepted |-> FALSE]
        ELSE IF \E c \in (used \cap Range(df.cols)) \cup {users_column} : ~Divides(df, c)
        THEN [accepted |-> FALSE]
        ELSE [accepted |-> TRUE, channel |-> channel,
              dfs |-> {Finish(sorted) : sorted \in SortByDate(df, date_column)}]

(***************************************************************************)
(* create_integrated_retention.                                            *)
(***************************************************************************)
\* expected_columns
ExpectedColumns ==
    << "Cohort Day", "Ltv Country", "Campaign Id", "Keywords", "Users", "Cost",
       "Average eCPI",
       "sessions - Unique users - day 1 - partial",
       "sessions - Unique users - day 2 - partial",
       "sessions - Unique users - day 3 - partial",
       "sessions - Unique users - day 4 - partial",
       "sessions - Unique users - day 5 - partial",
       "sessions - Unique users - day 6 - partial",
       "sessions - Unique users - day 7 - partial",
       "sessions - Unique users - day 14 - partial",
       "sessions - Unique users - day 30 - partial",
       "Unnamed: 16", "Unnamed: 17", "Unnamed: 18",
       "day1", "day2", "day3", "day4", "day5", "day6", "day7", "day14", "day30",
       "channel" >>

\* no column is cleared
UnnamedColumns_None == << >>

\* the columns of expected_columns with 'Unnamed' in their name
UnnamedColumns == << "Unnamed: 16", "Unnamed: 17", "Unnamed: 18" >>

\* df.rename(columns={old: new})
RenameCol(df, old, new) ==
    [cols |-> [k \in 1..Len(df.cols) |-> IF df.cols[k] = old THEN new ELSE df.cols[k]],
     rows |-> [k \in 1..Len(df.rows) |->
                 [df.rows[k] EXCEPT !.cells =
                     [c \in (Range(df.cols) \ {old}) \cup {new} |->
                         IF c = new THEN df.rows[k].cells[old]
                         ELSE df.rows[k].cells[c]]]]]

\* the correction of one column name
FixName(df, alt, std) ==
    IF alt \in Range(df.cols) /\ std \notin Range(df.cols)
    THEN RenameCol(df, alt, std)
    ELSE df

\* TagRetention with the column names corrected for every channel
TagRetention_AllChannels(channel, df) ==
    FixName(FixName(AssignCol(df, "channel", Str(ChannelMapping(channel))),
                    "sessions - Unique users - day 14- partial",
                    "sessions - Unique users - day 14 - partial"),
            "sessions - Unique users - day 30- partial",
            "sessions - Unique users - day 30 - partial")

\* the body of the loop over retention_data.items()
TagRetention(channel, df) ==
    LET df_copy == AssignCol(df, "channel", Str(ChannelMapping(channel)))
    IN  IF channel \in {"mvp", "and"}
        THEN FixName(FixName(df_copy, "sessions - Unique users - day 14- partial",
                             "sessions - Unique users - day 14 - partial"),
                     "sessions - Unique users - day 30- partial",
                     "sessions - Unique users - day 30 - partial")
        ELSE df_copy

\* rows with the keys (text of Cohort Day, NaN last; rank of the channel)
CohortChannelKeyed(rows) ==
    [k \in 1..Len(rows) |->
        LET v == rows[k].cells["Cohort Day"]
        IN  [key |-> IF v = Null
                     THEN SortKey(TRUE, << >>, ChannelOrder(rows[k].cells["channel"]))
                     ELSE SortKey(FALSE, v.s, ChannelOrder(rows[k].cells["channel"])),
             row |-> rows[k]]]

\* no cut to the schedule: every column of the concatenation is kept
FinalColumns_KeepAll(df) == df.cols

\* final_columns, the columns the result is cut to
FinalColumns(df) == ExpectedColumns

\* retention_data is None, or the tables of the channels of keys, which is
\* the dict's order
create_integrated_retention(retention_data, keys) ==
    IF retention_data = None THEN EmptyFrame
    ELSE LET integrated_dfs ==
                 [k \in 1..Len(keys) |-> TagRetention(keys[k], retention_data[keys[k]])]
             integrated_df == Concat(integrated_dfs)
             dated == IF "Cohort Day" \in Range(integrated_df.cols)
                      THEN StandardizeCol(integrated_df, "Cohort Day")
                      ELSE integrated_df
             filled == AssignAll(dated, Without(ExpectedColumns, Range(dated.cols)), Null)
             selected == SelectCols(filled, FinalColumns(filled))
             cleared == AssignAll(selected, UnnamedColumns, EmptyStr)
             sorted == [cols |-> cleared.cols,
                        rows |-> StableSort(CohortChannelKeyed(cleared.rows))]
         IN  Fillna(sorted, NA)

(***************************************************************************)
(* The batch script "7.【排序】留存.py": process_retention_files over the     *)
(* CSV files of a directory.                                               *)
(***************************************************************************)
MaxDirFiles == 2     \* files in the directory of the batch script

\* the text a channel's file names start with: the literal head of
\* channel_info['pattern']
BatchPrefix(channel) ==
    CASE channel = "ios" -> << "r", "e", "t", "e", "n", "t", "i", "o", "n", "_", "i", "o", "s" >>
      [] channel = "ios_formal" -> << "r", "e", "t", "e", "n", "t", "i", "o", "n", "_", "i", "o", "s", "_", "f", "o", "r", "m", "a", "l" >>
      [] channel = "mvp" -> << "r", "e", "t", "e", "n", "t", "i", "o", "n", "_", "m", "v", "p" >>
      [] channel = "and" -> << "r", "e", "t", "e", "n", "t", "i", "o", "n", "_", "a", "n", "d" >>

EndsWith(s, p) == Len(s) >= Len(p) /\ SubSeq(s, Len(s) - Len(p) + 1, Len(s)) = p

DotCsv == << ".", "c", "s", "v" >>

\* BatchMatches with the ios pattern lacking its negative lookahead
BatchMatches_NoLookahead(channel, f) ==
    LET prefix == BatchPrefix(channel)
    IN  /\ StartsWith(f, prefix)
        /\ EndsWith(SubSeq(f, Len(prefix) + 1, Len(f)), DotCsv)

\* re.compile(channel_info['pattern']).match(f): ^prefix.*\.csv$, and for ios
\* the prefix not followed by _formal
BatchMatches(channel, f) ==
    LET prefix == BatchPrefix(channel)
        after == SubSeq(f, Len(prefix) + 1, Len(f))
    IN  /\ StartsWith(f, prefix)
        /\ channel = "ios" => ~StartsWith(after, << "_", "f", "o", "r", "m", "a", "l" >>)
        /\ EndsWith(after, DotCsv)

\* channel_info['empty_columns'] of the batch script
BatchEmptyColumns(channel) ==
    CASE channel = "ios" -> 4
      [] channel = "ios_formal" -> 3
      [] channel = "mvp" -> 1
      [] channel = "and" -> 0

\* f'sessions - Unique users - day {day}- partial'
VariantColumn(day) ==
    << "sessions - Unique users - day 1- partial",
       "sessions - Unique users - day 2- partial",
       "sessions - Unique users - day 3- partial",
       "sessions - Unique users - day 4- partial",
       "sessions - Unique users - day 5- partial",
       "sessions - Unique users - day 6- partial",
       "sessions - Unique users - day 7- partial",
       "sessions - Unique users - day 14- partial",
       "sessions - Unique users - day 30- partial" >>[DayIndex(day)]

\* retention_columns of a day, in the order they are tried
BatchRetentionColumns(day) ==
    << VariantColumn(day), AlternativeColumn(day), RetentionColumn(day) >>

\* names of the files of the directory
BatchNames ==
    {
      << "r", "e", "t", "e", "n", "t", "i", "o", "n", "_", "i", "o", "s", ".", "c", "s", "v" >>,
      << "r", "e", "t", "e", "n", "t", "i", "o", "n", "_", "i", "o", "s", "_", "f", "o", "r", "m", "a", "l", ".", "c", "s", "v" >>,
      << "r", "e", "t", "e", "n", "t", "i", "o", "n", "_", "m", "v", "p", ".", "c", "s", "v" >>,
      << "r", "e", "t", "e", "n", "t", "i", "o", "n", "_", "m", "v", "p", "_", "3", ".", "1", "7", ".", "c", "s", "v" >>,
      << "r", "e", "t", "e", "n", "t", "i", "o", "n", "_", "a", "n", "d", ".", "c", "s", "v" >>,
      << "R", "e", "t", "e", "n", "t", "i", "o", "n", "_", "a", "n", "d", ".", "c", "s", "v" >>
    }

BatchContents ==
    { RetContentFull, RetContentAlternative, RetContentNoUsers, RetContentNoDate,
      RetContentMixed }

BatchFiles == {RetFile(n, c) : n \in BatchNames, c \in BatchContents}

\* the sets of at most n files, no two of one name
RECURSIVE Directories(_)
Directories(n) ==
    IF n = 0 THEN {{}}
    ELSE LET smaller == Directories(n - 1)
         IN  smaller \cup {dir \cup {f} : dir \in smaller, f \in BatchFiles}

\* The directories: one to MaxDirFiles files, no two of one name.
BatchDirectories ==
    {dir \in Directories(MaxDirFiles) :
        /\ dir # {}
        /\ \A f, g \in dir : f.name = g.name => f = g}

\* sorted(matching_files)[0]
LastByName_First(files) == CHOOSE f \in files : \A g \in files : StrLeq(f.name, g.name)

\* sorted(matching_files)[-1]
LastByName(files) == CHOOSE f \in files : \A g \in files : StrLeq(g.name, f.name)

\* channel_files: for each channel with matching files, in the order of
\* channels, the file whose name sorts last
RECURSIVE ChannelFiles(_, _)
ChannelFiles(channels, csv_files) ==
    IF Len(channels) = 0 THEN << >>
    ELSE LET matching_files == {f \in csv_files : BatchMatches(channels[1], f.name)}
         IN  (IF matching_files = {} THEN << >>
              ELSE << [channel |-> channels[1], file |-> LastByName(matching_files)] >>)
             \o ChannelFiles(Tail(channels), csv_files)

\* df[f'day{day}'] = (df[retention_column] / df[users_column]).round(4)
BatchAddDayColumn(df, day, retention_column, users_column) ==
    [cols |-> IF DayColumn(day) \in Range(df.cols) THEN df.cols
              ELSE Append(df.cols, DayColumn(day)),
     rows |-> [k \in 1..Len(df.rows) |->
                 [df.rows[k] EXCEPT !.cells =
                     [c \in Range(df.cols) \cup {DayColumn(day)} |->
                         IF c = DayColumn(day)
                         THEN RetentionRate(df.rows[k].cells[retention_column],
                                            df.rows[k].cells[users_column])
                         ELSE df.rows[k].cells[c]]]]]

\* the loop over retention_days of the batch script
RECURSIVE BatchAddDays(_, _, _)
BatchAddDays(df, days, users_column) ==
    IF Len(days) = 0 THEN df
    ELSE LET retention_column == FirstPresent(BatchRetentionColumns(days[1]), df.cols)
         IN  BatchAddDays(IF retention_column = "" THEN df
                          ELSE BatchAddDayColumn(df, days[1], retention_column,
                                                 users_column),
                          Tail(days), users_column)

\* date_column of the batch script: "" stands for None (no date column)
BatchDateColumn(cols) ==
    IF "Cohort Day" \in Range(cols) THEN "Cohort Day"
    ELSE FirstPresent(PossibleDateColumns, cols)

\* The body of the loop over channel_files, for the i-th of them: the file
\* is skipped (saved is FALSE), or one of the tables of dfs is written to
\* the output file.
BatchFileStep(channel, file, i) ==
    LET df == ReadRetCsv(file, i)
        date_column == BatchDateColumn(df.cols)
        users_column == IF "Users" \in Range(df.cols) THEN "Users"
                        ELSE FirstPresent(PossibleUsersColumns, df.cols)
        days == RetDays(channel)
        used == {FirstPresent(BatchRetentionColumns(days[k]), df.cols) :
                    k \in 1..Len(days)} \ {""}
        Finish(sorted) ==
            BatchAddDays(AssignAll(sorted, SubSeq(PaddingNames, 1,
                                                  BatchEmptyColumns(channel)), Null),
                         days, users_column)
    IN  IF ~file.readable THEN [saved |-> FALSE]
        ELSE IF users_column = "" THEN [saved |-> FALSE]
        ELSE IF \E c \in used \cup {users_column} : ~Divides(df, c)
        THEN [saved |-> FALSE]
        ELSE [saved |-> TRUE,
              dfs |-> {Finish(sorted) :
                          sorted \in IF date_column = "" THEN {df}
                                     ELSE SortByDate(df, date_column)}]

(***************************************************************************)
(* State.                                                                  *)
(***************************************************************************)
VARIABLES
    pc,                 \* where the session is: "idle", "dau_files" (in the loop of
                        \* process_dau_files), "dau_merged" (it returned),
                        \* "dau_integrated" (create_integrated_dau returned),
                        \* "retention_files", "retention_done" and
                        \* "retention_integrated" likewise
    i,                  \* number of files the loop has handled
    uploaded_file,      \* the file of the loop's latest iteration, None outside
    channel_dfs,        \* channel -> sequence of tables
    accepted_files,     \* history: channel -> the files whose tables are in
                        \* channel_dfs[channel], in the same order
    standard_columns,   \* channel -> column list, << >> for None
    processed_files,
    merged_by_channel,  \* the value process_dau_files returned: None, or
                        \* channel -> table (None: the key is absent)
    integrated_dau,     \* the value create_integrated_dau returned, None before
    processed_data,     \* the dict of process_retention_files: channel -> table
                        \* (None: the key is absent)
    processed_keys,     \* the keys of processed_data in the dict's order
    integrated_retention, \* the value create_integrated_retention returned, None
                        \* before
    date_input,         \* the arguments of the calls of the date helpers
    date_output,        \* their results, None before the call
    csv_files,          \* batch script: the CSV files of the directory
    channel_files,      \* batch script: the [channel, file] it goes through
    saved_files,        \* batch script: channel -> the table written for the
                        \* channel's file (None: no output file)
    dau_calls,          \* history: calls of process_dau_files in the session
    workbook,           \* the cumulative workbook: its sheets total and splash,
                        \* None while the file does not exist
    appended            \* history: the tables of the calls of
                        \* append_to_existing_excel, in order

vars == << pc, i, uploaded_file, channel_dfs, accepted_files, standard_columns,
           processed_files, merged_by_channel, integrated_dau, processed_data,
           processed_keys, integrated_retention, date_input, date_output,
           csv_files, channel_files, saved_files, dau_calls, workbook, appended >>

excel_vars == << workbook, appended >>

batch_vars == << csv_files, channel_files, saved_files >>

date_vars == << date_input, date_output >>

dau_vars == << channel_dfs, accepted_files, standard_columns, processed_files,
               merged_by_channel, integrated_dau, dau_calls >>

retention_vars == << processed_data, processed_keys, integrated_retention >>

\* no analysis has run
InitSession ==
    /\ pc = "idle"
    /\ i = 0
    /\ uploaded_file = None
    /\ channel_dfs = [ch \in Range(DauChannels) |-> << >>]
    /\ accepted_files = [ch \in Range(DauChannels) |-> << >>]
    /\ standard_columns = [ch \in Range(DauChannels) |-> << >>]
    /\ processed_files = 0
    /\ merged_by_channel = None
    /\ integrated_dau = None
    /\ processed_data = [ch \in Range(RetChannels) |-> None]
    /\ processed_keys = << >>
    /\ integrated_retention = None
    /\ csv_files = {}
    /\ channel_files = << >>
    /\ saved_files = [ch \in Range(RetChannels) |-> None]
    /\ dau_calls = 0

Init ==
    /\ InitSession
    /\ date_input = << Null, Null >>
    /\ date_output = None
    /\ workbook = None
    /\ appended = << >>

\* StartDau with standard_columns kept from the call before, as a variable
\* of the module would be
StartDau_KeepsStandard ==
    /\ pc \in {"idle", "dau_merged", "dau_integrated"}
    /\ dau_calls < MaxCalls
    /\ dau_calls' = dau_calls + 1
    /\ pc' = "dau_files"
    /\ i' = 0
    /\ uploaded_file' = None
    /\ channel_dfs' = [ch \in Range(DauChannels) |-> << >>]
    /\ accepted_files' = [ch \in Range(DauChannels) |-> << >>]
    /\ processed_files' = 0
    /\ merged_by_channel' = None
    /\ integrated_dau' = None
    /\ UNCHANGED standard_columns
    /\ UNCHANGED retention_vars
    /\ UNCHANGED << date_vars, batch_vars, excel_vars >>

\* process_dau_files is called with a non-empty list: its locals are created
StartDau ==
    /\ pc \in {"idle", "dau_merged", "dau_integrated"}
    /\ dau_calls < MaxCalls
    /\ dau_calls' = dau_calls + 1
    /\ pc' = "dau_files"
    /\ i' = 0
    /\ uploaded_file' = None
    /\ channel_dfs' = [ch \in Range(DauChannels) |-> << >>]
    /\ accepted_files' = [ch \in Range(DauChannels) |-> << >>]
    /\ standard_columns' = [ch \in Range(DauChannels) |-> << >>]
    /\ processed_files' = 0
    /\ merged_by_channel' = None
    /\ integrated_dau' = None
    /\ UNCHANGED retention_vars
    /\ UNCHANGED << date_vars, batch_vars, excel_vars >>

\* the number of rows held in channel_dfs
RowsHeld(dfs) ==
    LET all == Flatten([k \in 1..Len(DauChannels) |-> dfs[DauChannels[k]]])
    IN  Len(Flatten([k \in 1..Len(all) |-> all[k].rows]))

\* HandleDauFile that sets the standard columns of the channel from the
\* header of the file as soon as the name is recognised, before the file is
\* read
HandleDauFile_SeedsFromHeader(file) ==
    /\ pc = "dau_files"
    /\ i < MaxFiles
    /\ RowsHeld(channel_dfs) + file.nrows <= MaxBatchRows
    /\ i' = i + 1
    /\ uploaded_file' = file
    /\ LET channel == ClassifyDau(file.name)
           step == DauFileStep(file, i + 1,
                               IF channel = "" THEN << >> ELSE standard_columns[channel])
       IN  IF step.accepted
           THEN /\ standard_columns' = [standard_columns EXCEPT ![step.channel] = step.standard]
                /\ channel_dfs' = [channel_dfs EXCEPT
                                      ![step.channel] = Append(@, step.df)]
                /\ accepted_files' = [accepted_files EXCEPT
                                         ![step.channel] = Append(@, file)]
                /\ processed_files' = processed_files + 1
           ELSE /\ standard_columns' =
                      IF channel # "" /\ standard_columns[channel] = << >>
                      THEN [standard_columns EXCEPT ![channel] = << "date" >> \o file.cols]
                      ELSE standard_columns
                /\ UNCHANGED << channel_dfs, accepted_files, processed_files >>
    /\ UNCHANGED << pc, merged_by_channel, integrated_dau, dau_calls >>
    /\ UNCHANGED retention_vars
    /\ UNCHANGED << date_vars, batch_vars, excel_vars >>

\* HandleDauFile with one list of standard columns for all channels: the
\* first accepted file sets it for every channel that has none
HandleDauFile_SharedStandard(file) ==
    /\ pc = "dau_files"
    /\ i < MaxFiles
    /\ RowsHeld(channel_dfs) + file.nrows <= MaxBatchRows
    /\ i' = i + 1
    /\ uploaded_file' = file
    /\ LET step == DauFileStep(file, i + 1,
                               IF ClassifyDau(file.name) = "" THEN << >>
                               ELSE standard_columns[ClassifyDau(file.name)])
       IN  IF step.accepted
           THEN /\ standard_columns' = [ch \in Range(DauChannels) |->
                                           IF standard_columns[ch] = << >>
                                           THEN step.standard
                                           ELSE standard_columns[ch]]
                /\ channel_dfs' = [channel_dfs EXCEPT
                                      ![step.channel] = Append(@, step.df)]
                /\ accepted_files' = [accepted_files EXCEPT
                                         ![step.channel] = Append(@, file)]
                /\ processed_files' = processed_files + 1
           ELSE UNCHANGED << standard_columns, channel_dfs, accepted_files,
                             processed_files >>
    /\ UNCHANGED << pc, merged_by_channel, integrated_dau, dau_calls >>
    /\ UNCHANGED retention_vars
    /\ UNCHANGED << date_vars, batch_vars, excel_vars >>

\* one iteration of the loop over uploaded_files
HandleDauFile(file) ==
    /\ pc = "dau_files"
    /\ i < MaxFiles
    /\ RowsHeld(channel_dfs) + file.nrows <= MaxBatchRows
    /\ i' = i + 1
    /\ uploaded_file' = file
    /\ LET step == DauFileStep(file, i + 1,
                               IF ClassifyDau(file.name) = "" THEN << >>
                               ELSE standard_columns[ClassifyDau(file.name)])
       IN  IF step.accepted
           THEN /\ standard_columns' = [standard_columns EXCEPT ![step.channel] = step.standard]
                /\ channel_dfs' = [channel_dfs EXCEPT
                                      ![step.channel] = Append(@, step.df)]
                /\ accepted_files' = [accepted_files EXCEPT
                                         ![step.channel] = Append(@, file)]
                /\ processed_files' = processed_files + 1
           ELSE UNCHANGED << standard_columns, channel_dfs, accepted_files,
                             processed_files >>
    /\ UNCHANGED << pc, merged_by_channel, integrated_dau, dau_calls >>
    /\ UNCHANGED retention_vars
    /\ UNCHANGED << date_vars, batch_vars, excel_vars >>

\* the loop is over: the merge, and the return
MergeDau ==
    /\ pc = "dau_files"
    /\ i >= 1
    /\ pc' = "dau_merged"
    /\ uploaded_file' = None
    /\ IF processed_files = 0
       THEN merged_by_channel' = None
       ELSE \E mvp \in (IF channel_dfs["mvp"] = << >> THEN {None}
                        ELSE MergeChannel("mvp", channel_dfs["mvp"])),
               and \in (IF channel_dfs["and"] = << >> THEN {None}
                        ELSE MergeChannel("and", channel_dfs["and"])),
               ios \in (IF channel_dfs["ios"] = << >> THEN {None}
                        ELSE MergeChannel("ios", channel_dfs["ios"])) :
                merged_by_channel' = [mvp |-> mvp, and |-> and, ios |-> ios]
    /\ UNCHANGED << i, channel_dfs, accepted_files, standard_columns, processed_files,
                    integrated_dau, dau_calls >>
    /\ UNCHANGED retention_vars
    /\ UNCHANGED << date_vars, batch_vars, excel_vars >>

IntegrateDau ==
    /\ pc = "dau_merged"
    /\ pc' = "dau_integrated"
    /\ integrated_dau' = create_integrated_dau(merged_by_channel)
    /\ UNCHANGED << i, uploaded_file, channel_dfs, accepted_files, standard_columns,
                    processed_files, merged_by_channel, dau_calls >>
    /\ UNCHANGED retention_vars
    /\ UNCHANGED << date_vars, batch_vars, excel_vars >>

\* process_retention_files is called with a non-empty list: its locals are
\* created
StartRetention ==
    /\ pc \in {"idle", "retention_done", "retention_integrated"}
    /\ pc' = "retention_files"
    /\ i' = 0
    /\ uploaded_file' = None
    /\ processed_data' = [ch \in Range(RetChannels) |-> None]
    /\ processed_keys' = << >>
    /\ integrated_retention' = None
    /\ UNCHANGED dau_vars
    /\ UNCHANGED << date_vars, batch_vars, excel_vars >>

\* HandleRetentionFile that keeps the rows processed_data[channel] holds and
\* puts the rows of the file after them
HandleRetentionFile_Concatenates(file) ==
    /\ pc = "retention_files"
    /\ i < MaxFiles
    /\ i' = i + 1
    /\ uploaded_file' = file
    /\ LET step == RetentionFileStep(file, i + 1)
       IN  IF step.accepted
           THEN /\ \E df \in step.dfs :
                       processed_data' =
                           [processed_data EXCEPT ![step.channel] =
                               IF @ = None THEN df
                               ELSE [cols |-> df.cols, rows |-> @.rows \o df.rows]]
                /\ processed_keys' = IF step.channel \in Range(processed_keys)
                                     THEN processed_keys
                                     ELSE Append(processed_keys, step.channel)
           ELSE UNCHANGED << processed_data, processed_keys >>
    /\ UNCHANGED << pc, integrated_retention >>
    /\ UNCHANGED dau_vars
    /\ UNCHANGED << date_vars, batch_vars, excel_vars >>

\* one iteration of the loop over uploaded_files
HandleRetentionFile(file) ==
    /\ pc = "retention_files"
    /\ i < MaxFiles
    /\ i' = i + 1
    /\ uploaded_file' = file
    /\ LET step == RetentionFileStep(file, i + 1)
       IN  IF step.accepted
           THEN /\ \E df \in step.dfs :
                       processed_data' = [processed_data EXCEPT ![step.channel] = df]
                /\ processed_keys' = IF step.channel \in Range(processed_keys)
                                     THEN processed_keys
                                     ELSE Append(processed_keys, step.channel)
           ELSE UNCHANGED << processed_data, processed_keys >>
    /\ UNCHANGED << pc, integrated_retention >>
    /\ UNCHANGED dau_vars
    /\ UNCHANGED << date_vars, batch_vars, excel_vars >>

\* the loop is over: the return.  The caller stores the dict, or None when
\* it is empty; an empty dict is kept here as the dict with no key.
FinishRetention ==
    /\ pc = "retention_files"
    /\ i >= 1
    /\ pc' = "retention_done"
    /\ uploaded_file' = None
    /\ UNCHANGED << i, processed_data, processed_keys, integrated_retention >>
    /\ UNCHANGED dau_vars
    /\ UNCHANGED << date_vars, batch_vars, excel_vars >>

\* the dict returned as it is, empty or not
RetentionResults_EmptyDict == processed_data

\* the value process_retention_files returned
RetentionResults == IF processed_keys = << >> THEN None ELSE processed_data

IntegrateRetention ==
    /\ pc = "retention_done"
    /\ pc' = "retention_integrated"
    /\ integrated_retention' = create_integrated_retention(RetentionResults, processed_keys)
    /\ UNCHANGED << i, uploaded_file, processed_data, processed_keys >>
    /\ UNCHANGED dau_vars
    /\ UNCHANGED << date_vars, batch_vars, excel_vars >>

\* the batch script is started on a directory (it runs once and exits): the
\* files of each channel are looked up
StartBatch(dir) ==
    /\ pc = "idle"
    /\ pc' = "batch_files"
    /\ i' = 0
    /\ csv_files' = {f \in dir : EndsWith(Lower(f.name), DotCsv)}
    /\ channel_files' = ChannelFiles(RetChannels, csv_files')
    /\ saved_files' = [ch \in Range(RetChannels) |-> None]
    /\ UNCHANGED << uploaded_file, dau_vars, retention_vars, date_vars, excel_vars >>

\* one iteration of the loop over channel_files
HandleBatchFile ==
    /\ pc = "batch_files"
    /\ i < Len(channel_files)
    /\ i' = i + 1
    /\ LET next == channel_files[i + 1]
           step == BatchFileStep(next.channel, next.file, i + 1)
       IN  IF step.saved
           THEN \E df \in step.dfs :
                   saved_files' = [saved_files EXCEPT ![next.channel] = df]
           ELSE UNCHANGED saved_files
    /\ UNCHANGED << pc, csv_files, channel_files >>
    /\ UNCHANGED << uploaded_file, dau_vars, retention_vars, date_vars, excel_vars >>

\* the loop is over
FinishBatch ==
    /\ pc = "batch_files"
    /\ i = Len(channel_files)
    /\ pc' = "batch_done"
    /\ UNCHANGED << i, batch_vars >>
    /\ UNCHANGED << uploaded_file, dau_vars, retention_vars, date_vars, excel_vars >>

\* The analyses and the batch script share no state: a behaviour follows the
\* runs of one of them.
Next ==
    \/ StartDau
    \/ \E file \in DauFiles : HandleDauFile(file)
    \/ MergeDau
    \/ IntegrateDau
    \/ StartRetention
    \/ \E file \in RetFiles : HandleRetentionFile(file)
    \/ FinishRetention
    \/ IntegrateRetention
    \/ \E dir \in BatchDirectories : StartBatch(dir)
    \/ HandleBatchFile
    \/ FinishBatch

Spec == Init /\ [][Next]_vars

(***************************************************************************)
(* The date helpers on their own: the arguments are drawn from DateInputs  *)
(* and the helpers are called on them.                                     *)
(***************************************************************************)
\* year/month/day texts, month and day with and without padding
DateTexts ==
    {y \o Slash \o m \o Slash \o d :
        y \in {<< "2", "0", "2", "4" >>, << "2", "0", "2", "5" >>},
        m \in {<< "3" >>, << "0", "3" >>, << "1", "2" >>},
        d \in {<< "9" >>, << "0", "9" >>, << "1", "7" >>}}

\* other arguments: empty and blank text, text that is no date, dates with
\* dashes and with blanks around, incomplete dates, NaN and a Timestamp
OtherDateInputs ==
    { EmptyStr, Str(<< " " >>), Str(<< "n", "e", "w" >>), Str(<< "a", "-", "b" >>),
      Str(<< " ", "a", "b", "c", " " >>), Str(<< "2", "0", "2", "5", "-", "0", "3", "-", "0", "9" >>),
      Str(<< " ", "2", "0", "2", "5", "-", "3", "-", "9", " " >>), Str(<< "2", "0", "2", "5", "-", "0", "3" >>),
      Str(<< "2", "0", "2", "5", "/", "x", "/", "9" >>), Str(<< "2", "0", "2", "5", "/", " ", "3", "/", "9" >>),
      Null, Ts(2025, 3, 9) }

DateInputs == {Str(t) : t \in DateTexts} \cup OtherDateInputs

InitDates ==
    /\ InitSession
    /\ date_input \in DateInputs \X DateInputs
    /\ date_output = None
    /\ workbook = None
    /\ appended = << >>

\* convert_date_to_sortable is called on two date strings
ConvertDates ==
    /\ date_output = None
    /\ date_input[1] # Null /\ date_input[1].t = "str"
    /\ date_input[2] # Null /\ date_input[2].t = "str"
    /\ date_output' = [call |-> "convert_date_to_sortable",
                       a |-> convert_date_to_sortable(date_input[1].s),
                       b |-> convert_date_to_sortable(date_input[2].s)]
    /\ UNCHANGED << date_input, pc, i, uploaded_file >>
    /\ UNCHANGED << dau_vars, retention_vars, batch_vars, excel_vars >>

\* force_standardize_date is called on the first argument
StandardizeDate ==
    /\ date_output = None
    /\ date_output' = [call |-> "force_standardize_date", calls |-> 1,
                       value |-> force_standardize_date(date_input[1])]
    /\ UNCHANGED << date_input, pc, i, uploaded_file >>
    /\ UNCHANGED << dau_vars, retention_vars, batch_vars, excel_vars >>

\* force_standardize_date is called on its own result
StandardizeAgain ==
    /\ date_output # None
    /\ date_output.call = "force_standardize_date"
    /\ date_output.calls = 1
    /\ date_output' = [call |-> "force_standardize_date", calls |-> 2,
                       first |-> date_output.value,
                       value |-> force_standardize_date(date_output.value)]
    /\ UNCHANGED << date_input, pc, i, uploaded_file >>
    /\ UNCHANGED << dau_vars, retention_vars, batch_vars, excel_vars >>

NextDates ==
    \/ ConvertDates
    \/ StandardizeDate
    \/ StandardizeAgain

SpecDates == InitDates /\ [][NextDates]_vars

(***************************************************************************)
(* "2.【数透】效果-外包.py": append_to_existing_excel, which adds the result  *)
(* tables of one day to the sheets of the cumulative workbook.  The column *)
(* names stand for the Chinese ones: ad_date for the date column,          *)
(* advertiser for the row labels, revenue for the summed revenue,          *)
(* short_name and abbr for the two names of the abbreviation column.       *)
(***************************************************************************)
MaxAppends == 2      \* calls of append_to_existing_excel

\* the columns of table1 and table2
AdColumns == << "ad_date", "advertiser", "revenue", "short_name" >>

\* the result table of one day: one advertiser
AdTable(day) ==
    [cols |-> AdColumns,
     rows |-> << [src |-> << 0, 1 >>,
                  cells |-> [c \in Range(AdColumns) |->
                               CASE c = "ad_date" -> day
                                 [] c = "advertiser" -> Str(<< "x" >>)
                                 [] c = "revenue" -> Num(1)
                                 [] c = "short_name" -> Str(<< "x" >>)]] >>]

\* the date column is written from the date the script was given
AdTables == {AdTable(Date39), AdTable(Date317)}

\* sheets of the workbook before the first call: the abbreviation column
\* under its other name and a row of 2025/3/9; one more column and no row;
\* a row whose date is no date
SheetAbbr ==
    RenameCol(AdTable(Date39), "short_name", "abbr")
SheetNote ==
    [cols |-> Append(AdColumns, "note"), rows |-> << >>]
SheetTotalRow ==
    AdTable(DateTotal)

Sheets == {SheetAbbr, SheetNote, SheetTotalRow}

Workbooks == {None} \cup {[total |-> t, splash |-> s] : t \in Sheets, s \in Sheets}

\* to_excel followed by read_excel: a sheet without columns has no rows, and
\* an empty text cell is read as NaN
WriteSheet(df) ==
    IF Len(df.cols) = 0 THEN EmptyFrame
    ELSE [cols |-> df.cols,
          rows |-> [k \in 1..Len(df.rows) |->
                      [df.rows[k] EXCEPT !.cells =
                          [c \in Range(df.cols) |->
                              IF df.rows[k].cells[c] = EmptyStr THEN Null
                              ELSE df.rows[k].cells[c]]]]]

\* rows with the key pd.to_datetime gives their date
AdDateKeyed(df) ==
    [k \in 1..Len(df.rows) |->
        [key |-> DateColumnKeyed(ToDatetimeCol(df, "ad_date").rows, "ad_date")[k].key,
         row |-> df.rows[k]]]

\* One sheet: the table is renamed and widened to the sheet's columns, put
\* after the sheet's rows, and the rows are sorted on the date.  raised is
\* TRUE when pd.to_datetime raises.
UpdateSheet(existing, table) ==
    LET renamed == IF "abbr" \in Range(existing.cols) /\ "short_name" \in Range(table.cols)
                   THEN RenameCol(table, "short_name", "abbr")
                   ELSE table
        filled == AssignAll(renamed, Without(existing.cols, Range(renamed.cols)), EmptyStr)
        updated == Concat(<< existing, SelectCols(filled, existing.cols) >>)
    IN  IF "ad_date" \notin Range(updated.cols)
        THEN [raised |-> FALSE, dfs |-> {updated}]
        ELSE IF \E k \in 1..Len(updated.rows) : ~DateParses(updated.rows[k].cells["ad_date"])
        THEN [raised |-> TRUE]
        ELSE [raised |-> FALSE,
              dfs |-> {[cols |-> updated.cols, rows |-> rows] :
                          rows \in UnstableSorts(AdDateKeyed(updated))}]

\* append_to_existing_excel(table1, table2): the file is created with two
\* empty sheets when it does not exist; the sheets are written only when
\* both were updated
AppendToExisting(table1, table2) ==
    /\ pc = "idle"
    /\ Len(appended) < MaxAppends
    /\ LET file == IF workbook = None THEN [total |-> EmptyFrame, splash |-> EmptyFrame]
                   ELSE workbook
           total == UpdateSheet(file.total, table1)
           splash == UpdateSheet(file.splash, table2)
       IN  IF total.raised \/ splash.raised
           THEN workbook' = file
           ELSE \E t \in total.dfs, s \in splash.dfs :
                   workbook' = [total |-> WriteSheet(t), splash |-> WriteSheet(s)]
    /\ appended' = Append(appended, [table1 |-> table1, table2 |-> table2])
    /\ UNCHANGED << pc, i, uploaded_file >>
    /\ UNCHANGED << dau_vars, retention_vars, date_vars, batch_vars >>

InitExcel ==
    /\ InitSession
    /\ date_input = << Null, Null >>
    /\ date_output = None
    /\ workbook \in Workbooks
    /\ appended = << >>

NextExcel == \E table1 \in AdTables, table2 \in AdTables : AppendToExisting(table1, table2)

SpecExcel == InitExcel /\ [][NextExcel]_vars

(***************************************************************************)
(* Vocabulary of the properties.                                           *)
(***************************************************************************)
AllDauChannels == Range(DauChannels)

\* the tables of a channel all have the listed columns, and each row has a
\* cell for exactly those columns
HasColumns(df, cols) ==
    /\ df.cols = cols
    /\ \A r \in 1..Len(df.rows) : DOMAIN df.rows[r].cells = Range(cols)

\* the loop's latest file is the source of a table of channel ch
LatestFileIn(ch) ==
    \E k \in 1..Len(channel_dfs[ch]) :
        \E r \in 1..Len(channel_dfs[ch][k].rows) : channel_dfs[ch][k].rows[r].src[1] = i

\* process_dau_files has returned a table for channel ch
Returned(ch) == pc \in {"dau_merged", "dau_integrated"}
                /\ merged_by_channel # None /\ merged_by_channel[ch] # None

(***************************************************************************)
(* C1.  All tables appended to channel_dfs[ch] in one batch have the       *)
(* column list of the first accepted table of the channel, in its order.   *)
(***************************************************************************)
C1_SameColumns ==
    \A ch \in AllDauChannels : \A k \in 1..Len(channel_dfs[ch]) :
        HasColumns(channel_dfs[ch][k], channel_dfs[ch][1].cols)

\* two files of one channel with different headers have been accepted
C1_Witness ==
    \E ch \in AllDauChannels :
        /\ Len(channel_dfs[ch]) >= 2
        /\ Range(accepted_files[ch][2].cols) # Range(accepted_files[ch][1].cols)
        /\ Len(channel_dfs[ch][2].rows) > 0

(***************************************************************************)
(* C2.  First-seen-wins.                                                   *)
(***************************************************************************)
\* the position in the batch of the k-th accepted file of channel ch
BatchIndex(ch, k) == channel_dfs[ch][k].rows[1].src[1]

\* the rows of the returned table of ch that come from the file at position n
RowsOfFile(ch, n) ==
    {r \in 1..Len(merged_by_channel[ch].rows) : merged_by_channel[ch].rows[r].src[1] = n}

\* standard_columns[ch] is set by the first accepted file of ch, to the
\* columns of that file's table, and a step of the same batch never changes it
C2_SetOnce ==
    /\ \A ch \in AllDauChannels :
          standard_columns[ch] # << >> /\ i' # 0
              => standard_columns'[ch] = standard_columns[ch]
    /\ \A ch \in AllDauChannels :
          standard_columns[ch] = << >> /\ standard_columns'[ch] # << >>
              => /\ Len(accepted_files[ch]) = 0
                 /\ Len(accepted_files'[ch]) = 1
                 /\ uploaded_file' = accepted_files'[ch][1]
                 /\ standard_columns'[ch] = channel_dfs'[ch][1].cols

\* C2 as stated: in the returned table of ch a column only a later file has
\* is absent, and a column of the first file that a later file lacks is
\* there, N/A on the rows of that later file
C2_MergedAsStated ==
    \A ch \in AllDauChannels :
        Returned(ch) =>
            \A k \in 2..Len(accepted_files[ch]) :
                LET first == Range(accepted_files[ch][1].cols)
                    later == Range(accepted_files[ch][k].cols)
                    cols == Range(merged_by_channel[ch].cols)
                IN  /\ \A c \in later \ first : c \notin cols
                    /\ \A c \in first \ later :
                          /\ c \in cols
                          /\ \A r \in RowsOfFile(ch, BatchIndex(ch, k)) :
                                merged_by_channel[ch].rows[r].cells[c] = NA

C2_AsStated == [][C2_SetOnce /\ C2_MergedAsStated']_vars

\* process_dau_files removes column c on the way to the returned table of ch
Removed(ch, c) ==
    \/ c \in ColumnsToDrop \cup {"sort_key"}
    \/ ch = "ios" /\ c \notin Range(ExpectedIosColumns)

\* C2 as amended: a column only a later file has is absent, or (ios, a column
\* of the whitelist) N/A on every row; a column of the first file that a later
\* file lacks is N/A on the rows of that later file unless the pipeline
\* removes it, and then it is absent
C2_MergedAmended ==
    \A ch \in AllDauChannels :
        Returned(ch) =>
            \A k \in 2..Len(accepted_files[ch]) :
                LET first == Range(accepted_files[ch][1].cols)
                    later == Range(accepted_files[ch][k].cols)
                    df == merged_by_channel[ch]
                    cols == Range(df.cols)
                IN  /\ \A c \in later \ first :
                          \/ c \notin cols
                          \/ /\ ch = "ios"
                             /\ \A r \in 1..Len(df.rows) : df.rows[r].cells[c] = NA
                    /\ \A c \in first \ later :
                          IF Removed(ch, c)
                          THEN c \notin cols
                          ELSE /\ c \in cols
                               /\ \A r \in RowsOfFile(ch, BatchIndex(ch, k)) :
                                     df.rows[r].cells[c] = NA

C2_FirstSeenWins == [][C2_SetOnce /\ C2_MergedAmended']_vars

\* a channel has returned a table made of a first file and a later file that
\* has a column the first lacks and lacks a column the first has
C2_Witness ==
    \E ch \in AllDauChannels :
        /\ Returned(ch)
        /\ Len(accepted_files[ch]) >= 2
        /\ Range(accepted_files[ch][2].cols) \ Range(accepted_files[ch][1].cols) # {}
        /\ Range(accepted_files[ch][1].cols) \ Range(accepted_files[ch][2].cols) # {}

(***************************************************************************)
(* C3.  The classifier tags a file with channel c exactly when its name    *)
(* starts with dau_, has at least 8 characters and carries c in            *)
(* {mvp, and, ios} at offsets 4..6; any other name contributes no rows.    *)
(***************************************************************************)
NamesChannel(name, c) ==
    /\ Len(name) >= 8
    /\ << name[1], name[2], name[3], name[4] >> = << "d", "a", "u", "_" >>
    /\ << name[5], name[6], name[7] >> = ChannelChars[c]

\* the content of a file is one the loop keeps: readable, with a data row,
\* without a date column of its own
ContentKept(file) ==
    file.readable /\ file.nrows > 0 /\ "date" \notin Range(file.cols)

C3_Classifier ==
    pc = "dau_files" /\ uploaded_file # None =>
        LET name == uploaded_file.name
            tagged == {ch \in AllDauChannels : LatestFileIn(ch)}
        IN  /\ \A c \in AllDauChannels :
                  (ClassifyDau(name) = c) <=> NamesChannel(name, c)
            /\ \A c \in tagged : NamesChannel(name, c)
            /\ \A c \in AllDauChannels :
                  NamesChannel(name, c) /\ ContentKept(uploaded_file) => tagged = {c}

\* the second file of a batch is tagged, after a first file that was also
\* accepted or was skipped
C3_Witness ==
    /\ pc = "dau_files" /\ i = 2 /\ processed_files = 1
    /\ LatestFileIn("and")

(***************************************************************************)
(* C4.  A returned ios table has exactly the 14 whitelisted columns in     *)
(* order; a whitelisted column no input file carried is N/A on every row.  *)
(***************************************************************************)
C4_IosWhitelist ==
    Returned("ios") =>
        LET df == merged_by_channel["ios"]
            whitelist ==
                << "date", "Country", "Impressions", "Clicks", "Installs",
                   "Conversion Rate", "Activity Sessions", "Cost", "Activity Revenue",
                   "Average eCPIUS$2.31", "Average DAU", "Average MAU",
                   "Average DAU/MAU Rate", "ARPDAU" >>
        IN  /\ HasColumns(df, whitelist)
            /\ \A c \in Range(whitelist) \ {"date"} :
                  (\A k \in 1..Len(accepted_files["ios"]) :
                        c \notin Range(accepted_files["ios"][k].cols))
                      => \A r \in 1..Len(df.rows) : df.rows[r].cells[c] = NA

\* an ios table is returned for an input with columns outside the whitelist
C4_Witness ==
    /\ Returned("ios")
    /\ \E k \in 1..Len(accepted_files["ios"]) :
          "Region" \in Range(accepted_files["ios"][k].cols)

(***************************************************************************)
(* C5.  When every date of a returned channel table is 2025/M/D with 1-2   *)
(* digit month and day, its rows are in non-decreasing (year, month, day)  *)
(* order.                                                                  *)
(***************************************************************************)
IsYMD(cell) ==
    LET parts == Split(cell.s, "/")
    IN  /\ Len(parts) = 3
        /\ \A k \in 1..3 : IsDigits(parts[k])
        /\ Len(parts[2]) <= 2 /\ Len(parts[3]) <= 2

DateTriple(cell) ==
    LET parts == Split(cell.s, "/")
    IN  << IntOf(parts[1]), IntOf(parts[2]), IntOf(parts[3]) >>

TripleLess(a, b) ==
    \/ a[1] < b[1]
    \/ a[1] = b[1] /\ a[2] < b[2]
    \/ a[1] = b[1] /\ a[2] = b[2] /\ a[3] < b[3]

C5_DateOrder ==
    \A ch \in AllDauChannels :
        Returned(ch) =>
            LET rows == merged_by_channel[ch].rows
            IN  (\A r \in 1..Len(rows) : IsYMD(rows[r].cells["date"]))
                => \A r \in 1..Len(rows), q \in 1..Len(rows) :
                      r < q => ~TripleLess(DateTriple(rows[q].cells["date"]),
                                           DateTriple(rows[r].cells["date"]))

\* a returned table in which the sort moved a row of a later file before a
\* row of an earlier file
C5_Witness ==
    \E ch \in AllDauChannels :
        /\ Returned(ch)
        /\ LET rows == merged_by_channel[ch].rows
           IN  /\ \A r \in 1..Len(rows) : IsYMD(rows[r].cells["date"])
               /\ \E r \in 1..Len(rows), q \in 1..Len(rows) :
                     /\ r < q
                     /\ rows[r].src[1] > rows[q].src[1]
                     /\ TripleLess(DateTriple(rows[r].cells["date"]),
                                   DateTriple(rows[q].cells["date"]))

(***************************************************************************)
(* C6.  The per-channel sort is stable: rows of a returned table with the  *)
(* same sort key keep the order of the concatenation (file order, then row *)
(* order in the file).                                                     *)
(***************************************************************************)
SrcBefore(a, b) == a[1] < b[1] \/ (a[1] = b[1] /\ a[2] < b[2])

C6_StableSort ==
    \A ch \in AllDauChannels :
        Returned(ch) =>
            LET rows == merged_by_channel[ch].rows
            IN  \A r \in 1..Len(rows), q \in 1..Len(rows) :
                    /\ r < q
                    /\ convert_date_to_sortable(rows[r].cells["date"].s)
                           = convert_date_to_sortable(rows[q].cells["date"].s)
                    => SrcBefore(rows[r].src, rows[q].src)

(***************************************************************************)
(* C7.  Row conservation, columns and N/A of the returned channel tables.  *)
(***************************************************************************)
\* the rows of the returned table of ch are the rows of the accepted files
\* of ch, each once
RowsConserved(ch) ==
    LET rows == merged_by_channel[ch].rows
        files == accepted_files[ch]
    IN  /\ Len(rows) = Len(Flatten([k \in 1..Len(files) |->
                                       [r \in 1..files[k].nrows |-> r]]))
        /\ \A r \in 1..Len(rows), q \in 1..Len(rows) : rows[r].src = rows[q].src => r = q
        /\ {rows[r].src : r \in 1..Len(rows)}
               = UNION {{<< BatchIndex(ch, k), r >> : r \in 1..files[k].nrows} :
                           k \in 1..Len(files)}

\* a row of a file that lacked a column of the returned table is N/A there
MissingIsNA(ch) ==
    LET df == merged_by_channel[ch]
    IN  \A k \in 1..Len(accepted_files[ch]) :
            \A c \in Range(df.cols) \ ({"date"} \cup Range(accepted_files[ch][k].cols)) :
                \A r \in RowsOfFile(ch, BatchIndex(ch, k)) : df.rows[r].cells[c] = NA

\* C7 as stated: the columns are date and then the columns of the first file
C7_AsStated ==
    \A ch \in AllDauChannels :
        Returned(ch) =>
            /\ RowsConserved(ch)
            /\ merged_by_channel[ch].cols = << "date" >> \o accepted_files[ch][1].cols
            /\ MissingIsNA(ch)

\* C7 as amended: the columns are date and then the columns of the first file
\* that are neither in the drop list nor named sort_key; for ios they are the
\* whitelist
C7_RowConservation ==
    \A ch \in AllDauChannels :
        Returned(ch) =>
            /\ RowsConserved(ch)
            /\ merged_by_channel[ch].cols =
                  IF ch = "ios" THEN ExpectedIosColumns
                  ELSE << "date" >> \o Without(accepted_files[ch][1].cols,
                                               ColumnsToDrop \cup {"sort_key"})
            /\ MissingIsNA(ch)

\* a table is returned for two files of more than two rows in all, the
\* second lacking a column of the first
C7_Witness ==
    \E ch \in AllDauChannels :
        /\ Returned(ch)
        /\ Len(accepted_files[ch]) = 2
        /\ Len(merged_by_channel[ch].rows) = 3
        /\ "Cost" \in Range(accepted_files[ch][1].cols)
        /\ "Cost" \notin Range(accepted_files[ch][2].cols)

(***************************************************************************)
(* C8.  When the union of the channels' columns, with the channel column,  *)
(* exceeds 16 columns, create_integrated_dau returns exactly 16 columns,   *)
(* the channel column last.                                                *)
(***************************************************************************)
UnionColumns ==
    {"channel"} \cup UNION {Range(merged_by_channel[ch].cols) :
                               ch \in {c \in AllDauChannels : Returned(c)}}

C8_Truncated ==
    pc = "dau_integrated" /\ merged_by_channel # None /\ Cardinality(UnionColumns) > 16
        => /\ Len(integrated_dau.cols) = 16
           /\ integrated_dau.cols[16] = "channel"

(***************************************************************************)
(* Vocabulary of the properties of the retention analysis.                 *)
(***************************************************************************)
\* create_integrated_retention has returned for a non-empty dict of tables
RetentionIntegrated == pc = "retention_integrated" /\ processed_keys # << >>

(***************************************************************************)
(* C9.  For a non-empty dict of channel tables, whatever their columns,    *)
(* the table create_integrated_retention returns has exactly the fixed     *)
(* schedule of columns in the fixed order: every scheduled column is       *)
(* present and every other input column, the padding columns included, is  *)
(* absent.  As stated the schedule has 28 columns; the schedule of the     *)
(* list the statement comes from has 29.                                   *)
(***************************************************************************)
C9_Schedule ==
    << "Cohort Day", "Ltv Country", "Campaign Id", "Keywords", "Users", "Cost",
       "Average eCPI" >>
    \o [k \in 1..9 |-> RetentionColumn(AllDays[k])]
    \o << "Unnamed: 16", "Unnamed: 17", "Unnamed: 18" >>
    \o [k \in 1..9 |-> DayColumn(AllDays[k])]
    \o << "channel" >>

C9_OnSchedule ==
    /\ integrated_retention.cols = C9_Schedule
    /\ \A r \in 1..Len(integrated_retention.rows) :
          DOMAIN integrated_retention.rows[r].cells = Range(C9_Schedule)

\* the statement with its count of 28 columns
C9_AsStated ==
    RetentionIntegrated => C9_OnSchedule /\ Len(integrated_retention.cols) = 28

\* the statement with the count of the schedule: 29 columns
C9_FixedSchedule ==
    RetentionIntegrated => C9_OnSchedule /\ Len(integrated_retention.cols) = 29

\* a table was returned for channel tables that carry a padding column and a
\* column outside the schedule and that lack a scheduled column
C9_Witness ==
    /\ RetentionIntegrated
    /\ Len(integrated_retention.rows) > 0
    /\ \E ch \in Range(processed_keys) :
          /\ " " \in Range(processed_data[ch].cols)
          /\ "Notes" \in Range(processed_data[ch].cols)
    /\ \A ch \in Range(processed_keys) : "Cost" \notin Range(processed_data[ch].cols)

(***************************************************************************)
(* C10.  In the tables create_integrated_dau and                           *)
(* create_integrated_retention return, rows are ordered by (date, channel  *)
(* rank) with mvp = 0, android = 1, ios = 2: no row of a later date        *)
(* precedes a row of an earlier date, and among the rows of one date the   *)
(* mvp rows precede the android rows, which precede the ios rows.          *)
(***************************************************************************)
\* the cell shows a calendar date: year/month/day, possibly followed by a
\* time of day
ShowsDate(cell) ==
    /\ cell.t = "str"
    /\ Len(cell.s) > 0
    /\ LET parts == Split(Split(cell.s, " ")[1], "/")
       IN  Len(parts) = 3 /\ \A k \in 1..3 : IsDigits(parts[k])

DateShown(cell) ==
    LET parts == Split(Split(cell.s, " ")[1], "/")
    IN  << IntOf(parts[1]), IntOf(parts[2]), IntOf(parts[3]) >>

C10_Rank(cell) ==
    CASE cell = Str(<< "m", "v", "p" >>) -> 0
      [] cell = Str(<< "a", "n", "d", "r", "o", "i", "d" >>) -> 1
      [] cell = Str(<< "i", "o", "s" >>) -> 2

\* the rows of df that show a date in date_column are in (date, rank) order
C10_InOrder(df, date_column) ==
    \A r \in 1..Len(df.rows), q \in 1..Len(df.rows) :
        (/\ r < q
         /\ ShowsDate(df.rows[r].cells[date_column])
         /\ ShowsDate(df.rows[q].cells[date_column]))
        => LET dr == DateShown(df.rows[r].cells[date_column])
               dq == DateShown(df.rows[q].cells[date_column])
           IN  /\ ~TripleLess(dq, dr)
               /\ dr = dq => C10_Rank(df.rows[r].cells["channel"])
                               <= C10_Rank(df.rows[q].cells["channel"])

C10_DauOrdered ==
    (pc = "dau_integrated" /\ Len(integrated_dau.rows) > 0)
        => C10_InOrder(integrated_dau, "date")

C10_RetentionOrdered ==
    (RetentionIntegrated /\ Len(integrated_retention.rows) > 0)
        => C10_InOrder(integrated_retention, "Cohort Day")

C10_Ordered == C10_DauOrdered /\ C10_RetentionOrdered

(***************************************************************************)
(* Vocabulary of the properties of the date helpers.                       *)
(***************************************************************************)
Converted == date_output # None /\ date_output.call = "convert_date_to_sortable"

Standardized(n) ==
    /\ date_output # None
    /\ date_output.call = "force_standardize_date"
    /\ date_output.calls = n

(***************************************************************************)
(* C11.  convert_date_to_sortable preserves order: for two year/month/day   *)
(* strings A and B with years of the same width and months and days of     *)
(* one or two digits, if A is the earlier date then the result for A is    *)
(* less than the result for B as strings; 2025/3/9 gives 20250309 and      *)
(* 2025/3/17 gives 20250317.                                               *)
(***************************************************************************)
C11_OrderPreserving ==
    Converted =>
        LET A == date_input[1]
            B == date_input[2]
        IN  (/\ IsYMD(A) /\ IsYMD(B)
             /\ Len(Split(A.s, "/")[1]) = Len(Split(B.s, "/")[1])
             /\ TripleLess(DateTriple(A), DateTriple(B)))
            => /\ StrLess(date_output.a, date_output.b)
               /\ A.s = << "2", "0", "2", "5", "/", "3", "/", "9" >>
                     => date_output.a = << "2", "0", "2", "5", "0", "3", "0", "9" >>
               /\ B.s = << "2", "0", "2", "5", "/", "3", "/", "1", "7" >>
                     => date_output.b = << "2", "0", "2", "5", "0", "3", "1", "7" >>

\* the call on 2025/3/9 and 2025/3/17, whose texts are in the other order
C11_Witness ==
    /\ Converted
    /\ date_input[1].s = << "2", "0", "2", "5", "/", "3", "/", "9" >>
    /\ date_input[2].s = << "2", "0", "2", "5", "/", "3", "/", "1", "7" >>
    /\ StrLess(date_input[2].s, date_input[1].s)

(***************************************************************************)
(* C12.  force_standardize_date is idempotent: applied to its own result   *)
(* it returns that result, for canonical dates, dates with dashes, text    *)
(* with blanks around, text that is no date and the empty string.          *)
(***************************************************************************)
C12_Idempotent == Standardized(2) => date_output.value = date_output.first

\* the second call on the result of a first call that rewrote its argument
C12_Witness ==
    /\ Standardized(2)
    /\ date_input[1] = Str(<< " ", "2", "0", "2", "5", "-", "3", "-", "9", " " >>)
    /\ date_output.first = Str(<< "2", "0", "2", "5", "/", "0", "3", "/", "0", "9" >>)

(***************************************************************************)
(* C13.  force_standardize_date returns its argument unchanged when the    *)
(* argument is empty or does not split into exactly three numeric parts    *)
(* once - is replaced by /; an argument that does is rewritten as           *)
(* YYYY/MM/DD.                                                             *)
(***************************************************************************)
\* the text splits into exactly three numeric parts once - is replaced by /
C13_ThreeNumericParts(x) ==
    /\ x # Null
    /\ x.t = "str"
    /\ LET parts == Split(Replace(Strip(x.s), << "-" >>, Slash), "/")
       IN  Len(parts) = 3 /\ \A k \in 1..3 : IsDigits(Strip(parts[k]))

C13_Canonical(x) ==
    LET parts == Split(Replace(Strip(x.s), << "-" >>, Slash), "/")
    IN  Str(PadLeft(StrOf(IntOf(Strip(parts[1]))), 4) \o Slash
            \o PadLeft(StrOf(IntOf(Strip(parts[2]))), 2) \o Slash
            \o PadLeft(StrOf(IntOf(Strip(parts[3]))), 2))

C13_PassThrough ==
    Standardized(1) =>
        IF C13_ThreeNumericParts(date_input[1])
        THEN date_output.value = C13_Canonical(date_input[1])
        ELSE date_output.value = date_input[1]

(***************************************************************************)
(* C14.  The date value of every row of an accepted DAU file is 2025/M/D,  *)
(* where M.D is the first digits.digits pattern of the text between the    *)
(* last underscore of the file name and .csv; when that text holds no such *)
(* pattern the date value is the fallback 2025/1/1.                        *)
(***************************************************************************)
\* the text after the last underscore and before the final .csv
C14_Text(name) ==
    LET k == CHOOSE k \in 1..Len(name) :
                 name[k] = "_" /\ \A j \in (k + 1)..Len(name) : name[j] # "_"
    IN  SubSeq(name, k + 1, Len(name) - 4)

\* t[a..c] is a whole digits.digits pattern with the dot at b
C14_Pattern(t, a, b, c) ==
    /\ 1 <= a /\ a < b /\ b < c /\ c <= Len(t)
    /\ t[b] = "."
    /\ \A j \in a..c : j # b => t[j] \in Digits
    /\ a = 1 \/ t[a - 1] \notin Digits
    /\ c = Len(t) \/ t[c + 1] \notin Digits

C14_HasPattern(t) == \E a, b, c \in 1..Len(t) : C14_Pattern(t, a, b, c)

\* 2025/M/D of the first pattern of t
C14_Dated(t) ==
    LET p == CHOOSE p \in (1..Len(t)) \X (1..Len(t)) \X (1..Len(t)) :
                 /\ C14_Pattern(t, p[1], p[2], p[3])
                 /\ \A a, b, c \in 1..Len(t) : C14_Pattern(t, a, b, c) => p[1] <= a
    IN  << "2", "0", "2", "5", "/" >> \o SubSeq(t, p[1], p[2] - 1)
            \o << "/" >> \o SubSeq(t, p[2] + 1, p[3])

\* the date value of every row of the tables held for the accepted files is
\* 2025/M/D, or without_pattern[t] when the text t of the name holds no pattern
C14_RowsDated(without_pattern) ==
    \A ch \in AllDauChannels :
        \A k \in 1..Len(channel_dfs[ch]) :
            \A r \in 1..Len(channel_dfs[ch][k].rows) :
                LET t == C14_Text(accepted_files[ch][k].name)
                IN  channel_dfs[ch][k].rows[r].cells["date"]
                        = Str(IF C14_HasPattern(t) THEN C14_Dated(t)
                              ELSE without_pattern[t])

C14_Texts == {C14_Text(n) : n \in AcceptedDauNames}

C14_DateFromName ==
    C14_RowsDated([t \in C14_Texts |-> << "2", "0", "2", "5", "/", "1", "/", "1" >>])

\* the same with the text itself as the date value when it holds no pattern
C14_DateOrText == C14_RowsDated([t \in C14_Texts |-> t])

(***************************************************************************)
(* Vocabulary of the properties of the retention tables.                   *)
(***************************************************************************)
\* the per-channel tables of the dashboard and the tables the batch script
\* has written
RetentionTables ==
    {processed_data[ch] : ch \in {c \in Range(RetChannels) : processed_data[c] # None}}

SavedTables ==
    {saved_files[ch] : ch \in {c \in Range(RetChannels) : saved_files[c] # None}}

\* the users column of a table: Users, or the first fallback name it has
UsersColumnOf(df) ==
    IF "Users" \in Range(df.cols) THEN "Users"
    ELSE LET k == CHOOSE k \in 1..Len(PossibleUsersColumns) :
                      /\ PossibleUsersColumns[k] \in Range(df.cols)
                      /\ \A j \in 1..(k - 1) : PossibleUsersColumns[j] \notin Range(df.cols)
         IN  PossibleUsersColumns[k]

(***************************************************************************)
(* C15.  In every row of a processed retention table, each computed        *)
(* day{N} is the day-N session count divided by the row's Users value,     *)
(* rounded to 4 decimals (Users = 100 and 37 sessions give 0.37); the      *)
(* value is computed once and create_integrated_retention does not change  *)
(* it.                                                                     *)
(***************************************************************************)
\* value is sessions / users rounded to 4 decimals, as a count of 1/10000
C15_IsRatio(value, sessions, users) ==
    /\ value.t = "dec4"
    /\ 2 * (10000 * sessions.n - value.n * users.n) <= users.n
    /\ 2 * (value.n * users.n - 10000 * sessions.n) <= users.n
    /\ (users.n = 100 /\ sessions.n = 37) => value.n = 3700

\* the day columns of df hold the ratios of the session columns numerator[N]
C15_Ratios(df, numerator) ==
    \A k \in 1..Len(AllDays) :
        DayColumn(AllDays[k]) \in Range(df.cols) =>
            \A r \in 1..Len(df.rows) :
                LET sessions == df.rows[r].cells[numerator[AllDays[k]]]
                    users == df.rows[r].cells[UsersColumnOf(df)]
                IN  (sessions # Null /\ users # Null /\ users.n > 0)
                    => C15_IsRatio(df.rows[r].cells[DayColumn(AllDays[k])],
                                   sessions, users)

\* the session column the batch script divides for day N
C15_BatchNumerator(df) ==
    [N \in Range(AllDays) |->
        IF VariantColumn(N) \in Range(df.cols) THEN VariantColumn(N)
        ELSE IF AlternativeColumn(N) \in Range(df.cols) THEN AlternativeColumn(N)
        ELSE RetentionColumn(N)]

\* the integrated table shows the computed values of the channel tables
C15_Kept ==
    RetentionIntegrated =>
        \A df \in RetentionTables :
            \A r \in 1..Len(df.rows), k \in 1..Len(AllDays) :
                LET day == DayColumn(AllDays[k])
                IN  (day \in Range(df.cols) /\ df.rows[r].cells[day] # Null)
                    => \E q \in 1..Len(integrated_retention.rows) :
                          /\ integrated_retention.rows[q].src = df.rows[r].src
                          /\ integrated_retention.rows[q].cells[day]
                                = df.rows[r].cells[day]

C15_RetentionRatio ==
    /\ \A df \in RetentionTables :
          C15_Ratios(df, [N \in Range(AllDays) |-> RetentionColumn(N)])
    /\ \A df \in SavedTables : C15_Ratios(df, C15_BatchNumerator(df))
    /\ C15_Kept

\* an integrated table with the row of 100 users and 37 sessions and a row
\* whose ratio is rounded up
C15_Witness ==
    /\ RetentionIntegrated
    /\ \E q, r \in 1..Len(integrated_retention.rows) :
          /\ integrated_retention.rows[q].cells["Users"] = Num(100)
          /\ integrated_retention.rows[q].cells["day1"] = Dec4(3700)
          /\ integrated_retention.rows[r].cells["Users"] = Num(3)
          /\ integrated_retention.rows[r].cells["day1"] = Dec4(6667)

(***************************************************************************)
(* C16.  In the per-channel table the dashboard makes of a file, column    *)
(* day{N} exists exactly when N is in the channel's day set and the file   *)
(* has the session column of day N with or without the ' - partial'        *)
(* suffix; otherwise day{N} is absent.  When the spelling without the      *)
(* suffix is the one found, its values are also in the '- partial' column. *)
(***************************************************************************)
\* channel ch's table was made of the file of the latest iteration
C16_JustMade(ch) ==
    /\ pc = "retention_files"
    /\ uploaded_file # None
    /\ processed_data[ch] # None
    /\ ClassifyRetention(uploaded_file.name) = ch
    /\ \E r \in 1..Len(processed_data[ch].rows) : processed_data[ch].rows[r].src[1] = i

C16_DaySet(ch) ==
    IF ch = "mvp" THEN {1, 2, 3, 4, 5, 6, 7, 14} ELSE {1, 2, 3, 4, 5, 6, 7, 14, 30}

C16_DayColumns ==
    \A ch \in Range(RetChannels) :
        C16_JustMade(ch) =>
            LET input == Range(uploaded_file.cols)
                df == processed_data[ch]
            IN  \A k \in 1..Len(AllDays) :
                    LET N == AllDays[k]
                        found == RetentionColumn(N) \in input \/ AlternativeColumn(N) \in input
                    IN  /\ DayColumn(N) \in Range(df.cols) <=> (N \in C16_DaySet(ch) /\ found)
                        /\ (N \in C16_DaySet(ch) /\ RetentionColumn(N) \notin input
                              /\ AlternativeColumn(N) \in input)
                           => /\ RetentionColumn(N) \in Range(df.cols)
                              /\ \A r \in 1..Len(df.rows) :
                                    df.rows[r].cells[RetentionColumn(N)]
                                        = df.rows[r].cells[AlternativeColumn(N)]

\* the mvp table of a file with the suffix-less day 1 column: day1 computed,
\* the values copied, and no other day column
C16_Witness ==
    /\ C16_JustMade("mvp")
    /\ uploaded_file.cols = RetHeaderAlternative
    /\ "day1" \in Range(processed_data["mvp"].cols)
    /\ RetentionColumn(1) \in Range(processed_data["mvp"].cols)
    /\ "day2" \notin Range(processed_data["mvp"].cols)

(***************************************************************************)
(* C17.  A retention file with neither a Cohort Day column nor a column    *)
(* of the date fallback list, or with neither a Users column nor a column  *)
(* of the users fallback list, is skipped: the dashboard makes no table of *)
(* it, the batch script writes no output file for it, and the loop goes on *)
(* with the remaining files.                                               *)
(***************************************************************************)
C17_NoDateColumn(cols) ==
    ({"Cohort Day"} \cup Range(PossibleDateColumns)) \cap Range(cols) = {}

C17_NoUsersColumn(cols) ==
    ({"Users"} \cup Range(PossibleUsersColumns)) \cap Range(cols) = {}

\* the dashboard: no table holds a row of such a file, and the loop is still
\* running after it
C17_DashboardSkips ==
    (/\ pc \in {"retention_files", "retention_done", "retention_integrated"}
     /\ uploaded_file # None
     /\ C17_NoDateColumn(uploaded_file.cols) \/ C17_NoUsersColumn(uploaded_file.cols))
    => /\ pc = "retention_files"
       /\ \A df \in RetentionTables :
             \A r \in 1..Len(df.rows) : df.rows[r].src[1] # i

\* the batch script: the files it went through up to now
C17_BatchSkipsWithout(Missing) ==
    \A k \in 1..Len(channel_files) :
        (k <= i /\ Missing[channel_files[k].file.cols])
        => saved_files[channel_files[k].channel] = None

C17_BatchSkipsNoUsers ==
    C17_BatchSkipsWithout([cols \in {f.cols : f \in BatchFiles} |-> C17_NoUsersColumn(cols)])

C17_Skipped ==
    /\ C17_DashboardSkips
    /\ C17_BatchSkipsWithout([cols \in {f.cols : f \in BatchFiles} |->
                                 C17_NoDateColumn(cols) \/ C17_NoUsersColumn(cols)])

(***************************************************************************)
(* C18.  Retention classification never tags an ios_formal file as ios:    *)
(* retention_ios_formal.csv goes to channel ios_formal although the ios    *)
(* pattern is tested first, and every file name is assigned to at most one *)
(* of the four channels, in the dashboard and in the batch script.         *)
(***************************************************************************)
C18_IosFormalName ==
    << "r", "e", "t", "e", "n", "t", "i", "o", "n", "_", "i", "o", "s", "_",
       "f", "o", "r", "m", "a", "l", ".", "c", "s", "v" >>

\* the channels whose table the dashboard made of the latest file
C18_TaggedAs ==
    {ch \in Range(RetChannels) :
        /\ processed_data[ch] # None
        /\ \E r \in 1..Len(processed_data[ch].rows) : processed_data[ch].rows[r].src[1] = i}

C18_Dashboard ==
    (pc = "retention_files" /\ uploaded_file # None)
    => /\ Cardinality(C18_TaggedAs) <= 1
       /\ Lower(uploaded_file.name) = C18_IosFormalName => C18_TaggedAs \subseteq {"ios_formal"}

C18_Batch ==
    \A k \in 1..Len(channel_files) :
        /\ channel_files[k].file.name = C18_IosFormalName
              => channel_files[k].channel = "ios_formal"
        /\ \A j \in 1..Len(channel_files) :
              channel_files[j].file.name = channel_files[k].file.name => j = k

C18_OneChannel == C18_Dashboard /\ C18_Batch

\* the batch script has written retention_ios.csv for ios and
\* retention_ios_formal.csv for ios_formal
C18_Witness ==
    /\ pc = "batch_done"
    /\ \E k, j \in 1..Len(channel_files) :
          /\ channel_files[k].channel = "ios"
          /\ channel_files[k].file.name = BatchPrefix("ios") \o DotCsv
          /\ channel_files[j].channel = "ios_formal"
          /\ channel_files[j].file.name = C18_IosFormalName
    /\ saved_files["ios"] # None
    /\ saved_files["ios_formal"] # None

\* the dashboard has made the ios_formal table of retention_ios_formal.csv
C18_DashboardWitness ==
    /\ pc = "retention_files"
    /\ uploaded_file # None
    /\ uploaded_file.name = C18_IosFormalName
    /\ C18_TaggedAs = {"ios_formal"}

(***************************************************************************)
(* C19.  No failure while processing one file escapes the per-file step of *)
(* process_dau_files or process_retention_files: a file whose read,        *)
(* decode, date insertion or computation fails is skipped, the loop goes   *)
(* on, and the tables accumulated from earlier files are unchanged.        *)
(***************************************************************************)
\* a DAU file whose processing raises: read_csv cannot read it, or it has a
\* date column already (df.insert raises)
C19_DauFails(file) == ~file.readable \/ "date" \in Range(file.cols)

\* a retention file whose processing raises: read_csv cannot read it, or
\* its users are text (the division raises)
C19_RetentionFails(file) ==
    \/ ~file.readable
    \/ \E r \in 1..Len(file.lines) :
          file.lines[r].users # Null /\ file.lines[r].users.t = "str"

C19_Step ==
    /\ (pc = "dau_files" /\ i' = i + 1 /\ C19_DauFails(uploaded_file'))
       => /\ pc' = "dau_files"
          /\ UNCHANGED << channel_dfs, standard_columns, processed_files >>
    /\ (pc = "retention_files" /\ i' = i + 1 /\ C19_RetentionFails(uploaded_file'))
       => /\ pc' = "retention_files"
          /\ UNCHANGED << processed_data, processed_keys >>

C19_FailureIsSkip == [][C19_Step]_vars

\* a file with a date column of its own came after an accepted file of its
\* channel, whose table is still the only one held
C19_Witness ==
    /\ pc = "dau_files"
    /\ uploaded_file # None
    /\ "date" \in Range(uploaded_file.cols)
    /\ ClassifyDau(uploaded_file.name) = "mvp"
    /\ i = 2
    /\ processed_files = 1
    /\ Len(channel_dfs["mvp"]) = 1
    /\ standard_columns["mvp"] = << "date" >> \o HeaderBase

\* a retention file with text users came after an accepted file of its
\* channel, whose table is still held
C19_RetentionWitness ==
    /\ pc = "retention_files"
    /\ uploaded_file # None
    /\ uploaded_file.readable
    /\ C19_RetentionFails(uploaded_file)
    /\ ClassifyRetention(uploaded_file.name) = "mvp"
    /\ i = 2
    /\ processed_data["mvp"] # None

(***************************************************************************)
(* C20.  The result of process_dau_files has a channel's key exactly when  *)
(* at least one file of the channel was processed in the batch; with no    *)
(* file processed at all the function returns None, not an empty mapping.  *)
(* process_retention_files likewise returns None when no file was          *)
(* accepted.                                                               *)
(***************************************************************************)
C20_Dau ==
    pc \in {"dau_merged", "dau_integrated"} =>
        IF \A ch \in AllDauChannels : accepted_files[ch] = << >>
        THEN merged_by_channel = None
        ELSE /\ merged_by_channel # None
             /\ \A ch \in AllDauChannels :
                   merged_by_channel[ch] # None <=> accepted_files[ch] # << >>

C20_Retention ==
    pc \in {"retention_done", "retention_integrated"} =>
        IF \A ch \in Range(RetChannels) : processed_data[ch] = None
        THEN RetentionResults = None
        ELSE /\ RetentionResults # None
             /\ \A ch \in Range(RetChannels) :
                   RetentionResults[ch] # None <=> ch \in Range(processed_keys)

C20_ResultKeys == C20_Dau /\ C20_Retention

\* a batch whose files were all of channel mvp: one key
C20_Witness ==
    /\ pc = "dau_merged"
    /\ i = 2
    /\ Len(accepted_files["mvp"]) = 1
    /\ merged_by_channel # None
    /\ merged_by_channel["mvp"] # None
    /\ merged_by_channel["and"] = None
    /\ merged_by_channel["ios"] = None

\* batches of which no file was processed
C20_DauNoneWitness ==
    pc = "dau_merged" /\ i = 2 /\ merged_by_channel = None

C20_RetentionNoneWitness ==
    pc = "retention_done" /\ i = 2 /\ RetentionResults = None

(***************************************************************************)
(* C21.  In the table create_integrated_retention returns, every cell of   *)
(* a column whose name contains Unnamed is the empty string, never N/A and *)
(* never an input value; every other cell that had no value is the string  *)
(* N/A.                                                                    *)
(***************************************************************************)
C21_Unnamed == {"Unnamed: 16", "Unnamed: 17", "Unnamed: 18"}

\* the row of the channel tables an integrated row comes from
C21_SourceRow(src) ==
    LET df == CHOOSE df \in RetentionTables :
                  \E r \in 1..Len(df.rows) : df.rows[r].src = src
    IN  df.rows[CHOOSE r \in 1..Len(df.rows) : df.rows[r].src = src]

\* the cell of the source row that the integrated table shows under column
\* c had no value: the row has no such column (nor, for mvp and android,
\* its variant spelling), or the cell is null
C21_HadNoValue(row, c) ==
    LET source == C21_SourceRow(row.src).cells
        variant == IF row.cells["channel"] \in {Str(<< "m", "v", "p" >>),
                                               Str(<< "a", "n", "d", "r", "o", "i", "d" >>)}
                   THEN IF c = RetentionColumn(14) THEN {VariantColumn(14)}
                        ELSE IF c = RetentionColumn(30) THEN {VariantColumn(30)}
                        ELSE {}
                   ELSE {}
    IN  IF c \in DOMAIN source THEN source[c] = Null
        ELSE \A v \in variant : v \notin DOMAIN source \/ source[v] = Null

C21_Sentinels ==
    RetentionIntegrated =>
        \A q \in 1..Len(integrated_retention.rows) :
            LET row == integrated_retention.rows[q]
            IN  \A c \in Range(integrated_retention.cols) :
                    /\ c \in C21_Unnamed => row.cells[c] = EmptyStr
                    /\ (c \notin C21_Unnamed /\ c # "channel")
                       => /\ row.cells[c] # Null
                          /\ C21_HadNoValue(row, c) => row.cells[c] = NA

\* an integrated row whose input had a value in Unnamed: 16 and none in
\* Cost
C21_Witness ==
    /\ RetentionIntegrated
    /\ \E q \in 1..Len(integrated_retention.rows) :
          LET row == integrated_retention.rows[q]
          IN  /\ "Unnamed: 16" \in DOMAIN C21_SourceRow(row.src).cells
              /\ C21_SourceRow(row.src).cells["Unnamed: 16"] # Null
              /\ row.cells["Unnamed: 16"] = EmptyStr
              /\ row.cells["Unnamed: 17"] = EmptyStr
              /\ row.cells["Cost"] = NA

(***************************************************************************)
(* C22.  No null cell survives the DAU pipeline: every cell of every       *)
(* per-channel table process_dau_files returns and of the table            *)
(* create_integrated_dau returns is an input value or the string N/A,      *)
(* the cells of columns created by reconciliation, by the ios whitelist    *)
(* and by the union over the channels included.  (The date and channel     *)
(* columns hold the texts the pipeline writes.)                            *)
(***************************************************************************)
\* the accepted file of channel ch at position n of the batch
C22_File(ch, n) ==
    accepted_files[ch][CHOOSE k \in 1..Len(accepted_files[ch]) : BatchIndex(ch, k) = n]

\* the cell is N/A, or the value the row's file has in that column
C22_InputOrNA(ch, row, c) ==
    LET file == C22_File(ch, row.src[1])
        r == row.src[2]
    IN  \/ row.cells[c] = NA
        \/ /\ c \in Range(file.cols)
           /\ << r, c >> \notin file.nulls
           /\ row.cells[c] = Num(r)

C22_Clean(df, ch, q) ==
    \A c \in Range(df.cols) :
        /\ df.rows[q].cells[c] # Null
        /\ c \notin {"date", "channel"} => C22_InputOrNA(ch, df.rows[q], c)

\* the channel of a row of the integrated table
C22_ChannelOf(row) ==
    CHOOSE ch \in AllDauChannels : row.cells["channel"] = Str(ChannelMapping(ch))

C22_NoNull ==
    /\ \A ch \in AllDauChannels :
          Returned(ch) =>
              \A q \in 1..Len(merged_by_channel[ch].rows) :
                  C22_Clean(merged_by_channel[ch], ch, q)
    /\ (pc = "dau_integrated" /\ merged_by_channel # None)
       => \A q \in 1..Len(integrated_dau.rows) :
              C22_Clean(integrated_dau, C22_ChannelOf(integrated_dau.rows[q]), q)

\* an integrated table with a row whose input cell was empty, a row of a
\* file that lacked a column of its channel and a column only the other
\* channel has
C22_Witness ==
    /\ pc = "dau_integrated"
    /\ merged_by_channel # None
    /\ \E q \in 1..Len(integrated_dau.rows) :
          LET row == integrated_dau.rows[q]
              file == C22_File(C22_ChannelOf(row), row.src[1])
          IN  \E c \in Range(file.cols) :
                  << row.src[2], c >> \in file.nulls /\ row.cells[c] = NA
    /\ \E q \in 1..Len(integrated_dau.rows) :
          LET row == integrated_dau.rows[q]
          IN  \E c \in Range(merged_by_channel[C22_ChannelOf(row)].cols) :
                  /\ c \notin Range(C22_File(C22_ChannelOf(row), row.src[1]).cols) \cup {"date"}
                  /\ row.cells[c] = NA
    /\ \E q \in 1..Len(integrated_dau.rows) :
          LET row == integrated_dau.rows[q]
          IN  \E c \in Range(integrated_dau.cols) :
                  /\ c \notin Range(merged_by_channel[C22_ChannelOf(row)].cols) \cup {"channel"}
                  /\ row.cells[c] = NA

(***************************************************************************)
(* C23.  Batch isolation: the standard columns of every channel are unset  *)
(* at the start of every call of process_dau_files, so the result of a     *)
(* batch depends only on that batch's own ordered file list: batch B run   *)
(* after batch A has the result of batch B run alone.                      *)
(***************************************************************************)
\* Batch B run alone, for channel ch: the standard columns and the tables
\* the loop has after the accepted files of ch from the k-th on, starting
\* from the standard columns and tables given
RECURSIVE C23_Alone(_, _, _, _)
C23_Alone(ch, k, standard, dfs) ==
    IF k > Len(accepted_files[ch]) THEN [standard |-> standard, dfs |-> dfs]
    ELSE LET step == DauFileStep(accepted_files[ch][k], BatchIndex(ch, k), standard)
         IN  C23_Alone(ch, k + 1, step.standard, Append(dfs, step.df))

C23_Isolated ==
    /\ (pc = "dau_files" /\ i = 0)
       => \A ch \in AllDauChannels : standard_columns[ch] = << >> /\ channel_dfs[ch] = << >>
    /\ pc \in {"dau_files", "dau_merged", "dau_integrated"}
       => \A ch \in AllDauChannels :
              LET alone == C23_Alone(ch, 1, << >>, << >>)
              IN  /\ standard_columns[ch] = alone.standard
                  /\ channel_dfs[ch] = alone.dfs
                  /\ Returned(ch) => merged_by_channel[ch] \in MergeChannel(ch, alone.dfs)

\* the second call of the session has returned the tables of two files of
\* one channel with different columns
C23_Witness ==
    /\ dau_calls = 2
    /\ pc = "dau_merged"
    /\ Returned("mvp")
    /\ Len(accepted_files["mvp"]) = 2
    /\ accepted_files["mvp"][1].cols # accepted_files["mvp"][2].cols

(***************************************************************************)
(* C24.  In create_integrated_dau each channel's table gets the channel    *)
(* column as its second column (and shown as android, mvp and ios          *)
(* unchanged), the columns of the result are the union of the columns of   *)
(* all channels in first-seen order without duplicates, and every row      *)
(* holds N/A in each column of the union its own channel table lacks.      *)
(***************************************************************************)
\* the channels with a returned table, in the order of the dict
C24_Keys == SelectSeq(DauChannels, LAMBDA ch : merged_by_channel[ch] # None)

\* the columns of the table of the k-th channel once the channel column is
\* its second column
C24_Tagged(k) ==
    LET cols == merged_by_channel[C24_Keys[k]].cols
    IN  << cols[1], "channel" >> \o SubSeq(cols, 2, Len(cols))

\* where column c is first seen: the first channel that has it, and its
\* place in that channel's columns
C24_FirstSeen(c) ==
    LET k == CHOOSE k \in 1..Len(C24_Keys) :
                 /\ c \in Range(C24_Tagged(k))
                 /\ \A j \in 1..(k - 1) : c \notin Range(C24_Tagged(j))
        p == CHOOSE p \in 1..Len(C24_Tagged(k)) : C24_Tagged(k)[p] = c
    IN  << k, p >>

C24_Shown == [mvp |-> Str(<< "m", "v", "p" >>),
              and |-> Str(<< "a", "n", "d", "r", "o", "i", "d" >>),
              ios |-> Str(<< "i", "o", "s" >>)]

\* the channel whose tables hold the file at position n of the batch
C24_ChannelOfFile(n) ==
    CHOOSE ch \in AllDauChannels :
        \E k \in 1..Len(channel_dfs[ch]) : BatchIndex(ch, k) = n

C24_Union ==
    (pc = "dau_integrated" /\ merged_by_channel # None)
    => LET df == integrated_dau
       IN  /\ df.cols[2] = "channel"
           /\ Range(df.cols) = UNION {Range(C24_Tagged(k)) : k \in 1..Len(C24_Keys)}
           /\ \A a, b \in 1..Len(df.cols) :
                 a < b => LET x == C24_FirstSeen(df.cols[a])
                              y == C24_FirstSeen(df.cols[b])
                          IN  x[1] < y[1] \/ (x[1] = y[1] /\ x[2] < y[2])
           /\ \A q \in 1..Len(df.rows) :
                 LET ch == C24_ChannelOfFile(df.rows[q].src[1])
                     own == merged_by_channel[ch]
                     r == CHOOSE r \in 1..Len(own.rows) : own.rows[r].src = df.rows[q].src
                 IN  /\ df.rows[q].cells["channel"] = C24_Shown[ch]
                     /\ \A c \in Range(df.cols) \ {"channel", "date"} :
                           df.rows[q].cells[c] = IF c \in Range(own.cols)
                                                 THEN own.rows[r].cells[c]
                                                 ELSE NA

\* three channels with different columns: a column of the second channel and
\* a column of the third that the first lacks
C24_Witness ==
    /\ pc = "dau_integrated"
    /\ merged_by_channel # None
    /\ Len(C24_Keys) = 3
    /\ \E c \in Range(merged_by_channel["and"].cols) :
          c \notin Range(merged_by_channel["mvp"].cols)
    /\ \E c \in Range(merged_by_channel["ios"].cols) :
          c \notin Range(merged_by_channel["mvp"].cols) \cup Range(merged_by_channel["and"].cols)

(***************************************************************************)
(* C25.  In create_integrated_retention, for channels mvp and and only, a  *)
(* column spelt 'sessions - Unique users - day 14- partial' or             *)
(* '... day 30- partial' is renamed to the spelling with a space before    *)
(* the dash when that column is not present, so its values are shown under *)
(* the canonical column; when both spellings are present the canonical     *)
(* column's values are kept and the variant is dropped; for ios and        *)
(* ios_formal nothing is renamed.                                          *)
(***************************************************************************)
\* the channel whose table holds the row
C25_ChannelOf(src) ==
    CHOOSE ch \in Range(RetChannels) :
        /\ processed_data[ch] # None
        /\ \E r \in 1..Len(processed_data[ch].rows) : processed_data[ch].rows[r].src = src

\* what the integrated table shows under the canonical column of day N for
\* a row with the cells source of a table of channel ch
C25_Canonical(ch, source, N) ==
    LET value == IF RetentionColumn(N) \in DOMAIN source THEN source[RetentionColumn(N)]
                 ELSE IF ch \in {"mvp", "and"} /\ VariantColumn(N) \in DOMAIN source
                 THEN source[VariantColumn(N)]
                 ELSE Null
    IN  IF value = Null THEN NA ELSE value

C25_Renamed ==
    RetentionIntegrated =>
        \A N \in {14, 30} :
            /\ VariantColumn(N) \notin Range(integrated_retention.cols)
            /\ \A q \in 1..Len(integrated_retention.rows) :
                  LET row == integrated_retention.rows[q]
                  IN  row.cells[RetentionColumn(N)]
                          = C25_Canonical(C25_ChannelOf(row.src),
                                          C21_SourceRow(row.src).cells, N)

\* an mvp row whose day 14 count came under the variant spelling, an ios row
\* likewise, and an android row with both spellings of day 30
C25_Witness ==
    /\ RetentionIntegrated
    /\ \E a, b, c \in 1..Len(integrated_retention.rows) :
          LET mvp == integrated_retention.rows[a]
              ios == integrated_retention.rows[b]
              and == integrated_retention.rows[c]
          IN  /\ C25_ChannelOf(mvp.src) = "mvp"
              /\ RetentionColumn(14) \notin DOMAIN C21_SourceRow(mvp.src).cells
              /\ mvp.cells[RetentionColumn(14)] = Num(38)
              /\ C25_ChannelOf(ios.src) = "ios"
              /\ VariantColumn(14) \in DOMAIN C21_SourceRow(ios.src).cells
              /\ ios.cells[RetentionColumn(14)] = NA
              /\ C25_ChannelOf(and.src) = "and"
              /\ VariantColumn(30) \in DOMAIN C21_SourceRow(and.src).cells
              /\ and.cells[RetentionColumn(30)] = Num(50)

(***************************************************************************)
(* C26.  Degrade and continue on retention dates: when some values of the  *)
(* date column of a retention file do not parse as dates, the file is      *)
(* still processed and gives its channel table with all its rows, sorted   *)
(* as text on the raw values; when that sort fails too the rows stay in    *)
(* input order; the file is not skipped and the loop goes on.  Dashboard   *)
(* and batch script.                                                       *)
(***************************************************************************)
C26_DateColumn(cols) ==
    IF "Cohort Day" \in Range(cols) THEN "Cohort Day"
    ELSE FirstPresent(PossibleDateColumns, cols)

\* a file that is in order but for dates that do not parse
C26_BadDates(file) ==
    /\ file.readable
    /\ ~C17_NoDateColumn(file.cols)
    /\ ~C17_NoUsersColumn(file.cols)
    /\ ~C19_RetentionFails(file)
    /\ \E r \in 1..Len(file.lines) : ~DateParses(file.lines[r].date)

\* the raw values can be compared: text and empty cells only
C26_Comparable(file) ==
    \A r \in 1..Len(file.lines) :
        file.lines[r].date = Null \/ file.lines[r].date.t = "str"

\* df is the table of the file at position n: all its rows, the date values
\* as read, in text order (empty cells last) or, when the values cannot be
\* compared, in input order
C26_Degraded(df, file, n) ==
    LET date == C26_DateColumn(file.cols)
    IN  /\ df # None
        /\ Len(df.rows) = Len(file.lines)
        /\ {df.rows[r].src : r \in 1..Len(df.rows)} = {<< n, r >> : r \in 1..Len(file.lines)}
        /\ \A r \in 1..Len(df.rows) :
              df.rows[r].cells[date] = file.lines[df.rows[r].src[2]].date
        /\ \A a, b \in 1..Len(df.rows) :
              a < b =>
                  IF C26_Comparable(file)
                  THEN \/ df.rows[b].cells[date] = Null
                       \/ /\ df.rows[a].cells[date] # Null
                          /\ StrLeq(df.rows[a].cells[date].s, df.rows[b].cells[date].s)
                  ELSE df.rows[a].src[2] < df.rows[b].src[2]

C26_Dashboard ==
    (/\ pc = "retention_files"
     /\ uploaded_file # None
     /\ ClassifyRetention(uploaded_file.name) # ""
     /\ C26_BadDates(uploaded_file))
    => C26_Degraded(processed_data[ClassifyRetention(uploaded_file.name)], uploaded_file, i)

C26_Batch ==
    \A k \in 1..Len(channel_files) :
        (k <= i /\ C26_BadDates(channel_files[k].file))
        => C26_Degraded(saved_files[channel_files[k].channel], channel_files[k].file, k)

C26_DegradeAndContinue == C26_Dashboard /\ C26_Batch

\* the dashboard has made the table of a file whose first line is Total and
\* whose second line is a date: the date comes first
C26_Witness ==
    /\ pc = "retention_files"
    /\ uploaded_file # None
    /\ uploaded_file.cols = RetHeaderAlternative
    /\ uploaded_file.lines[1].date = DateTotal
    /\ uploaded_file.lines[2].date = Date39
    /\ processed_data["and"] # None
    /\ processed_data["and"].rows[1].src = << i, 2 >>
    /\ processed_data["and"].rows[2].src = << i, 1 >>
    /\ processed_data["and"].rows[2].cells["Cohort Day"] = DateTotal

\* the table of a file whose date values cannot be compared, in input order
C26_MixedWitness ==
    /\ pc = "batch_done"
    /\ \E k \in 1..Len(channel_files) :
          /\ channel_files[k].file.cols = RetHeaderMixed
          /\ saved_files[channel_files[k].channel] # None
          /\ saved_files[channel_files[k].channel].rows[1].cells["Cohort Day"] = DateTotal

(***************************************************************************)
(* C27.  Re-append is idempotent: appending the same day's result tables   *)
(* to the cumulative workbook twice (append_to_existing_excel called twice *)
(* with the same table1 and table2) leaves the sheets total and splash     *)
(* with the same rows as appending them once.                              *)
(***************************************************************************)
\* the two sheets hold the same rows, each as many times
C27_SameRows(a, b) ==
    /\ a.cols = b.cols
    /\ \A x \in {a.rows[k].cells : k \in 1..Len(a.rows)}
               \cup {b.rows[k].cells : k \in 1..Len(b.rows)} :
          Cardinality({k \in 1..Len(a.rows) : a.rows[k].cells = x})
              = Cardinality({k \in 1..Len(b.rows) : b.rows[k].cells = x})

\* the step is a call with the tables of the call before
C27_Repeated ==
    /\ Len(appended) >= 1
    /\ Len(appended') = Len(appended) + 1
    /\ appended'[Len(appended')] = appended[Len(appended)]

C27_Idempotent ==
    [][C27_Repeated => /\ C27_SameRows(workbook'.total, workbook.total)
                       /\ C27_SameRows(workbook'.splash, workbook.splash)]_vars

\* the sheet total holds the row of one day twice after the second call
C27_Duplicated ==
    /\ Len(appended) = 2
    /\ appended[1] = appended[2]
    /\ \E a, b \in 1..Len(workbook.total.rows) :
          /\ a # b
          /\ workbook.total.rows[a].cells = workbook.total.rows[b].cells
          /\ workbook.total.rows[a].cells["ad_date"] = Date317

(***************************************************************************)
(* C28.  Loop invariant of process_dau_files: after each file is handled,  *)
(* processed_files equals the total number of tables held in channel_dfs   *)
(* over all channels, and for each channel standard_columns[ch] is unset   *)
(* exactly when channel_dfs[ch] is empty: no file seeds the columns of a   *)
(* channel without contributing its table, and an empty or rejected file   *)
(* never seeds them.                                                       *)
(***************************************************************************)
\* the number of tables held in channel_dfs
C28_Tables ==
    Len(Flatten([k \in 1..Len(DauChannels) |-> channel_dfs[DauChannels[k]]]))

C28_LoopInvariant ==
    pc \in {"dau_files", "dau_merged", "dau_integrated"}
    => /\ processed_files = C28_Tables
       /\ \A ch \in Range(DauChannels) :
             (standard_columns[ch] = << >>) <=> (channel_dfs[ch] = << >>)

\* three files were handled: two tables of one channel, then an empty table
\* of another channel, whose columns stay unset
C28_Witness ==
    /\ pc = "dau_files"
    /\ i = MaxFiles
    /\ uploaded_file # None
    /\ processed_files = 2
    /\ \E ch, other \in Range(DauChannels) :
          /\ ch # other
          /\ Len(channel_dfs[ch]) = 2
          /\ standard_columns[ch] # << >>
          /\ channel_dfs[other] = << >>
          /\ standard_columns[other] = << >>
          /\ ClassifyDau(uploaded_file.name) = other
          /\ uploaded_file.readable
          /\ uploaded_file.nrows = 0

(***************************************************************************)
(* C29.  Frame condition of the loop of process_dau_files: handling a file *)
(* classified to a channel leaves standard_columns and channel_dfs of      *)
(* every other channel unchanged, and handling a file that is skipped      *)
(* (name not recognised, unreadable, or empty table) leaves                *)
(* standard_columns, channel_dfs and processed_files all unchanged.        *)
(***************************************************************************)
\* a file the loop skips before it looks at the columns
C29_Skipped(file) ==
    \/ ClassifyDau(file.name) = ""
    \/ ~file.readable
    \/ file.nrows = 0

C29_Step ==
    (pc = "dau_files" /\ i' = i + 1)
    => /\ \A other \in Range(DauChannels) \ {ClassifyDau(uploaded_file'.name)} :
             /\ standard_columns'[other] = standard_columns[other]
             /\ channel_dfs'[other] = channel_dfs[other]
       /\ C29_Skipped(uploaded_file')
          => UNCHANGED << standard_columns, channel_dfs, processed_files >>

C29_Frame == [][C29_Step]_vars

\* a file of and was accepted, then a file of mvp, then a file whose name is
\* not recognised was handled: both tables and both column lists are held
C29_Witness ==
    /\ pc = "dau_files"
    /\ i = MaxFiles
    /\ uploaded_file # None
    /\ ClassifyDau(uploaded_file.name) = ""
    /\ processed_files = 2
    /\ Len(channel_dfs["and"]) = 1
    /\ Len(channel_dfs["mvp"]) = 1
    /\ standard_columns["and"] # << >>
    /\ standard_columns["mvp"] # << >>
    /\ standard_columns["and"] # standard_columns["mvp"]

(***************************************************************************)
(* C30.  Retention processing keeps at most one table per channel: after   *)
(* any sequence of uploaded files, processed_data[ch] holds only the table *)
(* of the last accepted file of channel ch in upload order, and the rows   *)
(* of earlier accepted files of the same channel are discarded rather than *)
(* concatenated; the batch script likewise processes only one file per     *)
(* channel, the one whose name sorts last.                                 *)
(***************************************************************************)
\* all the rows of df were read from the n-th file, and they are as many as
\* the lines of that file
C30_TableOf(df, n, file) ==
    /\ df # None
    /\ Len(df.rows) = Len(file.lines)
    /\ \A r \in 1..Len(df.rows) : df.rows[r].src[1] = n

\* a file the loop of the dashboard goes through to processed_data[channel] = df
C30_Accepted(file) ==
    /\ ClassifyRetention(file.name) # ""
    /\ file.readable
    /\ ~C17_NoDateColumn(file.cols)
    /\ ~C17_NoUsersColumn(file.cols)
    /\ ~C19_RetentionFails(file)

\* one iteration: the table of the channel of an accepted file becomes the
\* table of that file, and every other table is the one held before
C30_Step ==
    (pc = "retention_files" /\ i' = i + 1)
    => \A ch \in Range(RetChannels) :
          IF C30_Accepted(uploaded_file') /\ ClassifyRetention(uploaded_file'.name) = ch
          THEN C30_TableOf(processed_data'[ch], i', uploaded_file')
          ELSE processed_data'[ch] = processed_data[ch]

\* the tables held: each has the rows of one file
C30_OneFileEach ==
    \A ch \in Range(RetChannels) :
        processed_data[ch] # None
        => \A r, q \in 1..Len(processed_data[ch].rows) :
              processed_data[ch].rows[r].src[1] = processed_data[ch].rows[q].src[1]

\* the batch script: one entry per channel, its file the one of the matching
\* files whose name sorts last, and the table written is the table of that file
C30_Batch ==
    /\ \A k \in 1..Len(channel_files) :
          /\ channel_files[k].file \in csv_files
          /\ BatchMatches(channel_files[k].channel, channel_files[k].file.name)
          /\ \A g \in csv_files :
                BatchMatches(channel_files[k].channel, g.name)
                => StrLeq(g.name, channel_files[k].file.name)
          /\ \A j \in 1..Len(channel_files) :
                channel_files[j].channel = channel_files[k].channel => j = k
    /\ \A ch \in Range(RetChannels) :
          saved_files[ch] # None
          => \E k \in 1..i :
                /\ channel_files[k].channel = ch
                /\ C30_TableOf(saved_files[ch], k, channel_files[k].file)

C30_LastFileOnly == [](C30_OneFileEach /\ C30_Batch) /\ [][C30_Step]_vars

\* three files were uploaded: the first and the third are accepted files of
\* mvp, the second an accepted file of and (mvp is the first key, and the
\* second); the table of mvp is the table of the third file
C30_Witness ==
    /\ pc = "retention_files"
    /\ i = MaxFiles
    /\ uploaded_file # None
    /\ C30_Accepted(uploaded_file)
    /\ ClassifyRetention(uploaded_file.name) = "mvp"
    /\ Len(uploaded_file.lines) >= 1
    /\ processed_keys = << "mvp", "and" >>
    /\ C30_TableOf(processed_data["mvp"], MaxFiles, uploaded_file)
    /\ processed_data["and"] # None
    /\ \E r \in 1..Len(processed_data["and"].rows) :
          processed_data["and"].rows[r].src[1] = 2

\* the directory held two files of mvp with different contents: the batch
\* script has written the table of the one whose name sorts last
C30_BatchWitness ==
    /\ pc = "batch_done"
    /\ Cardinality(csv_files) = 2
    /\ \A f \in csv_files : BatchMatches("mvp", f.name)
    /\ \E f, g \in csv_files : f.name # g.name /\ Len(f.lines) # Len(g.lines)
    /\ Len(channel_files) = 1
    /\ StrLeq(BatchPrefix("mvp") \o DotCsv, channel_files[1].file.name)
    /\ channel_files[1].file.name # BatchPrefix("mvp") \o DotCsv
    /\ C30_TableOf(saved_files["mvp"], 1, channel_files[1].file)

====
